---------------------------- MODULE Spec2Model ----------------------------
(***************************************************************************)
(* Credential & fetch core of github-repositories-viewer (backend):        *)
(*   - services/github.ts     createGitHubService / fetchRepositories      *)
(*   - services/cache         CacheService (get/set/delete/clear/cleanup)  *)
(*   - routes/repositories.ts GET /api/repositories                        *)
(*   - services/credentials.ts, models/database.ts, services/encryption.ts *)
(*                                                                         *)
(* Node.js runs every handler to its next real I/O await without           *)
(* interleaving, so one action is the code between two awaits on the       *)
(* network: the entry of the route up to the first page request, the       *)
(* arrival of one page (or of an error) up to the next page request or to  *)
(* the response.                                                           *)
(***************************************************************************)
EXTENDS Integers, Sequences, FiniteSets, TLC

(***************************************************************************)
(* Program constants                                                       *)
(***************************************************************************)
MAX_PAGES == 100

MAX_CACHE_SIZE == 100

\* 5 * 60 * 1000 ms
defaultTTL == 300000

CACHE_TTL == 300000

\* the code units of 'repositories:'
CACHE_KEY_PREFIX == <<114, 101, 112, 111, 115, 105, 116, 111, 114, 105, 101, 115, 58>>

\* cursor: string | null = null -- positions are numbered from 1, null is 0
NoCursor == 0

(***************************************************************************)
(* Bounds of the model                                                     *)
(***************************************************************************)
\* records on one page of the simulated provider are 0..MaxPageLen
MaxPageLen == 2

\* clock advances per behaviour
MaxTicks == 2

\* pages the upstream data set holds in the full specification
MaxRoutePages == 2

\* page responses that carry no endCursor although more pages are signalled
MaxNullCursors == 0

\* GET /api/repositories requests started in one behaviour
MaxCalls == 2

\* cursor-less responses, and pages, of the upstream whose responses may
\* carry no endCursor
NullCursorsServed == 1

NullCursorPages == 4

\* by how many entries a Map given to cleanup() is over the capacity
OverCapacity == 2

\* how far below capacity a pre-filled cache may start
InitGap == 1

\* keys not yet in a pre-filled cache that set/get/delete may use
NewKeys == 2

\* keys of a pre-filled cache that set/get/delete may use
OldKeys == 1

\* distinct values a direct cache set may store
NumData == 1

(***************************************************************************)
(* Option values: <<>> is null/undefined, <<x>> is x                       *)
(***************************************************************************)
None == <<>>

Some(x) == <<x>>

IsSome(o) == Len(o) = 1

Min(a, b) == IF a <= b THEN a ELSE b


Max(a, b) == IF a >= b THEN a ELSE b

(***************************************************************************)
(* State                                                                   *)
(***************************************************************************)
VARIABLES
    db,             \* credentials table: the sequence of its rows
    cache,          \* CacheService.cache: the Map's entries in insertion order
    now,            \* Date.now()
    ticks,          \* clock advances made so far
    timerActive,    \* CacheService.cleanupInterval is still set
    peakSize,       \* largest cache.size seen inside the last cache operation
    lastOp,         \* the last direct call of a method or route and what it returned
    fetch,          \* per request slot: the fetchRepositories invocation
    req,            \* per request slot: the GET /api/repositories handler
    lastFresh,      \* per cache key: the records of the last fresh 200 response
    provider,       \* the upstream: pages it holds, cursor-less responses it gives
    twin            \* a second run of the credentials calls: its table, its response

vars == <<db, cache, now, ticks, timerActive, peakSize, lastOp, fetch, req,
          lastFresh, provider, twin>>

Requests == {1, 2}

(***************************************************************************)
(* The simulated provider: an unchanging upstream data set.  The page      *)
(* served for a request is decided by the cursor the request carries.      *)
(***************************************************************************)
NullRef == "null"

PageLen(p) == p % (MaxPageLen + 1)

\* the GraphQLRepository at index i of page p; ids repeat across pages
GraphQLNode(p, i) ==
    [databaseId       |-> (p + i) % 3,
     defaultBranchRef |-> IF (p + i) % 2 = 0 THEN NullRef ELSE "dev",
     pushedAt         |-> IF p % 2 = 0 THEN NullRef ELSE "2024-01-01"]

\* response.viewer.repositories.nodes for a request with cursor c
PageNodes(c) == [i \in 1..PageLen(c + 1) |-> GraphQLNode(c + 1, i)]

(***************************************************************************)
(* Errors.  A message is a sequence of text fragments; includes() looks    *)
(* for a fragment.                                                         *)
(***************************************************************************)
Includes(msg, s) == \E i \in DOMAIN msg : msg[i] = s

RECURSIVE JoinMessages(_)
\* error.errors.map(e => e.message).join(', ')
JoinMessages(errs) ==
    IF errs = <<>> THEN <<>>
    ELSE IF Len(errs) = 1 THEN errs[1].message
    ELSE errs[1].message \o <<", ">> \o JoinMessages(Tail(errs))

\* what octokit.graphql may throw
ProviderErrors ==
    { [hasErrors |-> FALSE, errors |-> <<>>, status |-> 401,
       message |-> <<"Bad credentials">>],
      [hasErrors |-> FALSE, errors |-> <<>>, status |-> 403,
       message |-> <<"API ", "rate limit", " exceeded">>],
      [hasErrors |-> FALSE, errors |-> <<>>, status |-> 403,
       message |-> <<"Forbidden">>],
      [hasErrors |-> FALSE, errors |-> <<>>, status |-> 403,
       message |-> <<"You have triggered an abuse detection mechanism">>],
      [hasErrors |-> TRUE,
       errors |-> << [type |-> "RATE_LIMITED",
                      message |-> <<"API ", "rate limit", " exceeded for user">>] >>,
       status |-> 0,
       message |-> <<"Request failed due to following response errors">>],
      [hasErrors |-> FALSE, errors |-> <<>>, status |-> 0,
       message |-> <<"connect ETIMEDOUT">>] }

\* the Error thrown by the catch block of fetchRepositories
WrapError(e) ==
    IF e.hasErrors
    THEN [message |-> <<"GraphQL API error: ">> \o JoinMessages(e.errors),
          status |-> 0, responseStatus |-> 0, responseErrors |-> <<>>]
    ELSE IF e.status # 0
    THEN [message |-> <<"GitHub API HTTP ", ToString(e.status), ": ">> \o e.message,
          status |-> 0, responseStatus |-> 0, responseErrors |-> <<>>]
    ELSE [message |-> <<"Failed to fetch repositories: ">> \o e.message,
          status |-> 0, responseStatus |-> 0, responseErrors |-> <<>>]

NoError == [message |-> <<>>, status |-> 0, responseStatus |-> 0,
            responseErrors |-> <<>>]

(***************************************************************************)
(* fetchRepositories                                                       *)
(***************************************************************************)
\* the mapping of one GraphQLRepository to the public Repository
MapRepository(repo) ==
    [id             |-> repo.databaseId,
     default_branch |-> IF repo.defaultBranchRef = NullRef THEN "main"
                        ELSE repo.defaultBranchRef,
     pushed_at      |-> IF repo.pushedAt = NullRef THEN "" ELSE repo.pushedAt]

\* allRepos.map(...)
MapRepositories(allRepos) ==
    [i \in 1..Len(allRepos) |-> MapRepository(allRepos[i])]

\* a push that puts the new page in front of the accumulator
PushAll_Prepend(allRepos, nodes) == nodes \o allRepos

\* allRepos.push(...repos.nodes)
PushAll(allRepos, nodes) == allRepos \o nodes

\* the locals of one invocation before the loop; sent, pages, warned and
\* thrown record the requests issued, the responses received, console.warn
\* and what octokit.graphql threw
FetchIdle ==
    [pc          |-> "idle",
     allRepos    |-> <<>>,
     hasNextPage |-> TRUE,
     cursor      |-> NoCursor,
     pageCount   |-> 0,
     sent        |-> <<>>,
     pages       |-> <<>>,
     warned      |-> FALSE,
     ret         |-> <<>>,
     err         |-> NoError,
     thrown      |-> None]

\* a loop test that is off by one
LoopCondition_OffByOne(f) == f.hasNextPage /\ f.pageCount <= MAX_PAGES

\* while (hasNextPage && pageCount < MAX_PAGES)
LoopCondition(f) == f.hasNextPage /\ f.pageCount < MAX_PAGES

\* a warning that looks at the page count alone
WarnCondition_CountOnly(f) == f.pageCount >= MAX_PAGES

\* if (pageCount >= MAX_PAGES && hasNextPage) console.warn(...)
WarnCondition(f) == f.pageCount >= MAX_PAGES /\ f.hasNextPage

\* from the loop test to the next await, or to the return
FetchLoop(f) ==
    IF LoopCondition(f)
    THEN [f EXCEPT !.pc = "awaiting", !.sent = Append(@, f.cursor)]
    ELSE [f EXCEPT !.pc = "returned",
                   !.warned = WarnCondition(f),
                   !.ret = MapRepositories(f.allRepos)]

\* a call whose accumulator and page count are not locals of the call but
\* live at module level, where every invocation finds what the others left
FetchStart_ModuleLevel ==
    FetchLoop([FetchIdle EXCEPT !.pc = "running",
                                !.allRepos = fetch[1].allRepos \o fetch[2].allRepos,
                                !.pageCount = fetch[1].pageCount + fetch[2].pageCount])

\* the call: the locals are initialised and the first test is made
FetchStart == FetchLoop([FetchIdle EXCEPT !.pc = "running"])

\* a loop body that keeps the cursor it had
FetchOnPage_KeepCursor(f, resp) ==
    FetchLoop([f EXCEPT !.allRepos = PushAll(@, resp.nodes),
                        !.hasNextPage = resp.hasNextPage,
                        !.pageCount = @ + 1,
                        !.pages = Append(@, [cursor |-> f.sent[Len(f.sent)],
                                             hasNextPage |-> resp.hasNextPage,
                                             endCursor |-> resp.endCursor])])

\* the body of the loop after the await, then the next test
FetchOnPage(f, resp) ==
    FetchLoop([f EXCEPT !.allRepos = PushAll(@, resp.nodes),
                        !.hasNextPage = resp.hasNextPage,
                        !.cursor = resp.endCursor,
                        !.pageCount = @ + 1,
                        !.pages = Append(@, [cursor |-> f.sent[Len(f.sent)],
                                             hasNextPage |-> resp.hasNextPage,
                                             endCursor |-> resp.endCursor])])

\* a catch block that returns what was accumulated instead of rethrowing
FetchOnError_Partial(f, e) ==
    [f EXCEPT !.pc = "returned", !.ret = MapRepositories(f.allRepos)]

\* the await throws: the catch block rethrows
FetchOnError(f, e) ==
    [f EXCEPT !.pc = "threw", !.err = WrapError(e), !.thrown = Some(e)]

\* responses with no endCursor although more pages are signalled, so far
NullCursors(f) ==
    Cardinality({i \in DOMAIN f.pages :
                   f.pages[i].hasNextPage /\ f.pages[i].endCursor = NoCursor})

\* the responses the provider may give to the request in flight: the page
\* the cursor names, more pages or not, and the cursor of the next page (or,
\* within the bound, none)
PageResponses(f) ==
    LET c == f.sent[Len(f.sent)]
        ends(h) == {c + 1} \cup
                   (IF NullCursors(f) < provider.nullCursors THEN {NoCursor}
                    ELSE {})
    IN  UNION { { [nodes |-> PageNodes(c), hasNextPage |-> h, endCursor |-> e] :
                    e \in ends(h) } :
                h \in {b \in BOOLEAN : b => c + 1 < provider.pages} }

(***************************************************************************)
(* CacheService.  The Map is the sequence of its entries in insertion      *)
(* order: Map.set on a present key keeps the key's place, on a new key it  *)
(* appends.                                                                *)
(***************************************************************************)
HasKey(c, key) == \E i \in DOMAIN c : c[i].key = key

IndexOf(c, key) == CHOOSE i \in DOMAIN c : c[i].key = key

\* Map.get
MapGet(c, key) == IF HasKey(c, key) THEN Some(c[IndexOf(c, key)]) ELSE None

\* Map.delete
MapDelete(c, key) == SelectSeq(c, LAMBDA e : e.key # key)

\* a Map.set that, on a present key, swaps the data in and leaves the rest
\* of the old entry
MapSet_DataOnly(c, key, entry) ==
    IF HasKey(c, key)
    THEN [c EXCEPT ![IndexOf(c, key)].data = entry.data]
    ELSE Append(c, entry)

\* Map.set
MapSet(c, key, entry) ==
    IF HasKey(c, key)
    THEN [c EXCEPT ![IndexOf(c, key)] = entry]
    ELSE Append(c, entry)

\* an eviction choice that takes the first entry in insertion order
OldestIndex_FirstInserted(c) == 1

\* index of sortedEntries[0]: Array.prototype.sort is stable, so among the
\* entries of the smallest timestamp the first in insertion order comes first
OldestIndex(c) ==
    CHOOSE i \in DOMAIN c :
        \A j \in DOMAIN c :
            \/ c[i].timestamp < c[j].timestamp
            \/ c[i].timestamp = c[j].timestamp /\ i <= j

\* Array.from(cache.entries()).sort((a, b) => a[1].timestamp - b[1].timestamp):
\* the sort is stable, so the place of an entry is one more than the number
\* of entries with a smaller timestamp, or with the same and an earlier place
SortByTimestamp(c) ==
    LET before(i) == {j \in DOMAIN c :
                        \/ c[j].timestamp < c[i].timestamp
                        \/ c[j].timestamp = c[i].timestamp /\ j < i}
        place == [i \in DOMAIN c |-> Cardinality(before(i)) + 1]
    IN  [k \in DOMAIN c |-> c[CHOOSE i \in DOMAIN c : place[i] = k]]

\* const maxAge = ttl || this.defaultTTL
MaxAge(ttl) == IF ttl = 0 THEN defaultTTL ELSE ttl

\* an expiry test that already expires an entry whose age equals maxAge
Expired_AtMaxAge(entry, maxAge, t) == t - entry.timestamp >= maxAge

\* if (age > maxAge)
Expired(entry, maxAge, t) == t - entry.timestamp > maxAge

\* get(key, ttl) at time t: the Map afterwards and the value returned
CacheGet(c, key, ttl, t) ==
    IF ~HasKey(c, key) THEN [cache |-> c, result |-> None]
    ELSE LET entry == c[IndexOf(c, key)]
         IN  IF Expired(entry, MaxAge(ttl), t)
             THEN [cache |-> MapDelete(c, key), result |-> None]
             ELSE [cache |-> c, result |-> Some(entry.data)]

\* an eviction test that waits until the Map is over its capacity
SetMustEvict_WhenOver(c) == Len(c) > MAX_CACHE_SIZE

\* if (this.cache.size >= this.MAX_CACHE_SIZE)
SetMustEvict(c) == Len(c) >= MAX_CACHE_SIZE

\* the Map after each statement of set(key, data) at time t
CacheSetSteps(c, key, data, t) ==
    LET evicted == IF SetMustEvict(c)
                   THEN MapDelete(c, c[OldestIndex(c)].key)
                   ELSE c
    IN  << evicted,
           MapSet(evicted, key, [key |-> key, data |-> data, timestamp |-> t]) >>

\* set(key, data) at time t
CacheSet(c, key, data, t) == CacheSetSteps(c, key, data, t)[2]

\* delete(key)
CacheDelete(c, key) == MapDelete(c, key)

\* clear()
CacheClear(c) == <<>>

RECURSIVE DeleteAll(_, _)
\* for (i < entriesToDelete) this.cache.delete(sortedEntries[i][0])
DeleteAll(c, entries) ==
    IF entries = <<>> THEN c
    ELSE DeleteAll(MapDelete(c, entries[1].key), Tail(entries))

\* a cleanup that enforces the size and leaves expired entries in
Cleanup_NoExpiry(c, t) ==
    IF Len(c) > MAX_CACHE_SIZE
    THEN DeleteAll(c, SubSeq(SortByTimestamp(c), 1, Len(c) - MAX_CACHE_SIZE))
    ELSE c

\* cleanup() at time t
Cleanup(c, t) ==
    LET live == SelectSeq(c, LAMBDA e : ~Expired(e, defaultTTL, t))
    IN  IF Len(live) > MAX_CACHE_SIZE
        THEN DeleteAll(live, SubSeq(SortByTimestamp(live), 1,
                                    Len(live) - MAX_CACHE_SIZE))
        ELSE live

\* largest size among the Maps of a sequence of steps
PeakOf(steps) == CHOOSE n \in {Len(steps[i]) : i \in DOMAIN steps} :
                     \A i \in DOMAIN steps : Len(steps[i]) <= n

(***************************************************************************)
(* encryption.ts.  A string is its sequence of UTF-16 code units, a Buffer *)
(* its sequence of bytes, a base64 or hex string its sequence of digits.   *)
(***************************************************************************)
encryptionKey == "default-key-change-in-production"

ALGORITHM == "aes-256-gcm"

IV_LENGTH == 16

SALT_LENGTH == 64

TAG_LENGTH == 16

KEY_LENGTH == 32

NumSalts == 1

NumIVs == 1

\* values of process.env.ENCRYPTION_KEY || 'default-key-change-in-production'
MasterKeys == {encryptionKey, "a-strong-key"}

\* crypto.randomBytes(n), by the value r the random source gave to every byte
randomBytes(n, r) == [i \in 1..n |-> r]

\* crypto.randomBytes(SALT_LENGTH)
RandomSalts == {randomBytes(SALT_LENGTH, r) : r \in 1..NumSalts}

\* crypto.randomBytes(IV_LENGTH)
RandomIVs == {randomBytes(IV_LENGTH, 100 + r) : r \in 1..NumIVs}

\* buf.subarray(start, end): both offsets are clamped to the length
Subarray(buf, start, end) ==
    SubSeq(buf, Min(start, Len(buf)) + 1, Min(end, Len(buf)))

RECURSIVE SumTo(_, _)
SumTo(buf, n) == IF n = 0 THEN 0 ELSE buf[n] + SumTo(buf, n - 1)

\* the sum of the bytes of a Buffer
SumBytes(buf) == SumTo(buf, Len(buf))

IsHighSurrogate(u) == u >= 55296 /\ u <= 56319

IsLowSurrogate(u) == u >= 56320 /\ u <= 57343

RECURSIVE Utf8Encode(_)
\* the bytes of a string under 'utf8': a surrogate pair gives four bytes, a
\* surrogate without its partner gives the bytes of U+FFFD
Utf8Encode(s) ==
    IF s = <<>> THEN <<>>
    ELSE LET u == s[1]
         IN  IF u < 128 THEN <<u>> \o Utf8Encode(Tail(s))
             ELSE IF u < 2048
             THEN <<192 + (u \div 64), 128 + (u % 64)>> \o Utf8Encode(Tail(s))
             ELSE IF IsHighSurrogate(u) /\ Len(s) >= 2 /\ IsLowSurrogate(s[2])
             THEN LET cp == 65536 + (u - 55296) * 1024 + (s[2] - 56320)
                  IN  <<240 + (cp \div 262144), 128 + ((cp \div 4096) % 64),
                        128 + ((cp \div 64) % 64), 128 + (cp % 64)>>
                        \o Utf8Encode(Tail(Tail(s)))
             ELSE IF IsHighSurrogate(u) \/ IsLowSurrogate(u)
             THEN <<239, 191, 189>> \o Utf8Encode(Tail(s))
             ELSE <<224 + (u \div 4096), 128 + ((u \div 64) % 64), 128 + (u % 64)>>
                    \o Utf8Encode(Tail(s))

\* b is a continuation byte
IsContinuation(b) == b >= 128 /\ b < 192

RECURSIVE Utf8Decode(_)
\* the string of a Buffer under 'utf8'; a byte that starts no well-formed
\* sequence gives U+FFFD
Utf8Decode(b) ==
    IF b = <<>> THEN <<>>
    ELSE LET b1 == b[1]
             rest(n) == SubSeq(b, n + 1, Len(b))
         IN  IF b1 < 128 THEN <<b1>> \o Utf8Decode(rest(1))
             ELSE IF b1 >= 194 /\ b1 < 224 /\ Len(b) >= 2 /\ IsContinuation(b[2])
             THEN <<(b1 - 192) * 64 + (b[2] - 128)>> \o Utf8Decode(rest(2))
             ELSE IF /\ b1 >= 224 /\ b1 < 240 /\ Len(b) >= 3
                     /\ IsContinuation(b[2]) /\ IsContinuation(b[3])
                     /\ (b1 - 224) * 4096 + (b[2] - 128) * 64 >= 2048
                     /\ ~IsHighSurrogate((b1 - 224) * 4096 + (b[2] - 128) * 64)
                     /\ ~IsLowSurrogate((b1 - 224) * 4096 + (b[2] - 128) * 64)
             THEN <<(b1 - 224) * 4096 + (b[2] - 128) * 64 + (b[3] - 128)>>
                    \o Utf8Decode(rest(3))
             ELSE IF /\ b1 >= 240 /\ b1 < 245 /\ Len(b) >= 4
                     /\ IsContinuation(b[2]) /\ IsContinuation(b[3])
                     /\ IsContinuation(b[4])
                     /\ (b1 - 240) * 262144 + (b[2] - 128) * 4096 >= 65536
                     /\ (b1 - 240) * 262144 + (b[2] - 128) * 4096 < 1114112
             THEN LET cp == (b1 - 240) * 262144 + (b[2] - 128) * 4096
                              + (b[3] - 128) * 64 + (b[4] - 128) - 65536
                  IN  <<55296 + (cp \div 1024), 56320 + (cp % 1024)>>
                        \o Utf8Decode(rest(4))
             ELSE <<65533>> \o Utf8Decode(rest(1))

\* buf.toString('hex'), and the 'hex' output of cipher.update/final
HexEncode(buf) ==
    [i \in 1..(2 * Len(buf)) |->
        IF i % 2 = 1 THEN buf[(i + 1) \div 2] \div 16 ELSE buf[i \div 2] % 16]

\* Buffer.from(s, 'hex'), and the 'hex' input of decipher.update
HexDecode(s) ==
    [i \in 1..(Len(s) \div 2) |-> s[2 * i - 1] * 16 + s[2 * i]]

\* the base64 digit '='
Base64Pad == 64

\* buf.toString('base64'): three bytes give four digits, and the last group
\* is filled up with '='
Base64Encode(buf) ==
    LET n == Len(buf)
        byte(j) == IF j <= n THEN buf[j] ELSE 0
    IN  [i \in 1..(4 * ((n + 2) \div 3)) |->
            LET g  == (i - 1) \div 4
                b1 == byte(3 * g + 1)
                b2 == byte(3 * g + 2)
                b3 == byte(3 * g + 3)
            IN  CASE i % 4 = 1 -> b1 \div 4
                  [] i % 4 = 2 -> (b1 % 4) * 16 + (b2 \div 16)
                  [] i % 4 = 3 -> IF 3 * g + 2 > n THEN Base64Pad
                                  ELSE (b2 % 16) * 4 + (b3 \div 64)
                  [] OTHER     -> IF 3 * g + 3 > n THEN Base64Pad
                                  ELSE b3 % 64]

\* the bytes of a run of base64 digits: four digits give three bytes, three
\* give two, two give one, a single digit gives none
Base64DecodeDigits(s) ==
    LET n == Len(s)
        digit(j) == IF j <= n THEN s[j] ELSE 0
        tail == IF n % 4 = 2 THEN 1 ELSE IF n % 4 = 3 THEN 2 ELSE 0
    IN  [i \in 1..(3 * (n \div 4) + tail) |->
            LET g  == (i - 1) \div 3
                d1 == digit(4 * g + 1)
                d2 == digit(4 * g + 2)
                d3 == digit(4 * g + 3)
                d4 == digit(4 * g + 4)
            IN  CASE i % 3 = 1 -> d1 * 4 + (d2 \div 16)
                  [] i % 3 = 2 -> (d2 % 16) * 16 + (d3 \div 4)
                  [] OTHER     -> (d3 % 4) * 64 + d4]

\* Buffer.from(s, 'base64'): decoding stops at the first '='
Base64Decode(s) ==
    LET pads == {i \in DOMAIN s : s[i] = Base64Pad}
        stop == IF pads = {} THEN Len(s)
                ELSE (CHOOSE i \in pads : \A j \in pads : i <= j) - 1
    IN  Base64DecodeDigits(SubSeq(s, 1, stop))

\* crypto.pbkdf2Sync(config.encryptionKey, salt, 100000, KEY_LENGTH, 'sha512'),
\* as the term of what it was computed from; k is config.encryptionKey
deriveKey(k, salt) ==
    [kdf |-> "pbkdf2-sha512", secret |-> k, salt |-> salt,
     iterations |-> 100000, keylen |-> KEY_LENGTH]

\* the number that, with the position, gives the key stream of aes-256-gcm
\* under a key and an iv: it depends on the secret, the salt and the iv
KeyStreamBase(key, iv) ==
    (IF key.secret = encryptionKey THEN 17 ELSE 59)
      + 7 * SumBytes(key.salt) + 3 * SumBytes(iv) + 13 * Len(iv)

\* cipher.update(..) + cipher.final(..): the ciphertext bytes
GcmEncrypt(key, iv, plain) ==
    LET base == KeyStreamBase(key, iv)
    IN  [i \in 1..Len(plain) |-> (plain[i] + base + i) % 256]

\* decipher.update(..) + decipher.final(..): the plaintext bytes
GcmDecrypt(key, iv, data) ==
    LET base == KeyStreamBase(key, iv)
    IN  [i \in 1..Len(data) |-> (data[i] + 256 - ((base + i) % 256)) % 256]

\* cipher.getAuthTag(): TAG_LENGTH bytes that depend on key, iv and ciphertext
GcmTag(key, iv, data) ==
    LET base == 5 * KeyStreamBase(key, iv) + SumBytes(data) + 29 * Len(data)
    IN  [i \in 1..TAG_LENGTH |-> (base + 11 * i) % 256]

\* encrypt(text) under config.encryptionKey = k, with the salt and the iv the
\* random source gave
encrypt(text, k, salt, iv) ==
    LET key       == deriveKey(k, salt)
        encrypted == HexEncode(GcmEncrypt(key, iv, Utf8Encode(text)))
        tag       == GcmTag(key, iv, HexDecode(encrypted))
        combined  == salt \o iv \o tag \o HexDecode(encrypted)
    IN  Base64Encode(combined)

\* tag lengths setAuthTag takes for aes-256-gcm when createDecipheriv was
\* given no authTagLength: 16 bytes on every runtime, and the shorter GCM tag
\* lengths on a runtime that still accepts them
AuthTagLengths(shortTags) ==
    IF shortTags THEN {4, 8, 12, 13, 14, 15, 16} ELSE {16}

\* decrypt(encryptedData) under config.encryptionKey = k: the calls it made,
\* what it threw, and the string it returned
decrypt(encryptedData, k, shortTags) ==
    LET combined  == Base64Decode(encryptedData)
        salt      == Subarray(combined, 0, SALT_LENGTH)
        iv        == Subarray(combined, SALT_LENGTH, SALT_LENGTH + IV_LENGTH)
        tag       == Subarray(combined, SALT_LENGTH + IV_LENGTH,
                              SALT_LENGTH + IV_LENGTH + TAG_LENGTH)
        encrypted == Subarray(combined, SALT_LENGTH + IV_LENGTH + TAG_LENGTH,
                              Len(combined))
        key       == deriveKey(k, salt)
    IN  IF Len(iv) = 0
        THEN [steps |-> <<"Buffer.from", "deriveKey", "createDecipheriv">>,
              threw |-> "Invalid initialization vector", text |-> None]
        ELSE IF Len(tag) \notin AuthTagLengths(shortTags)
        THEN [steps |-> <<"Buffer.from", "deriveKey", "createDecipheriv",
                          "setAuthTag">>,
              threw |-> "Invalid authentication tag length", text |-> None]
        ELSE IF tag # Subarray(GcmTag(key, iv, HexDecode(HexEncode(encrypted))),
                               0, Len(tag))
        THEN [steps |-> <<"Buffer.from", "deriveKey", "createDecipheriv",
                          "setAuthTag", "update", "final">>,
              threw |-> "Unsupported state or unable to authenticate data",
              text |-> None]
        ELSE [steps |-> <<"Buffer.from", "deriveKey", "createDecipheriv",
                          "setAuthTag", "update", "final">>,
              threw |-> "",
              text |-> Some(Utf8Decode(GcmDecrypt(key, iv,
                                           HexDecode(HexEncode(encrypted)))))]

(***************************************************************************)
(* models/database.ts: the credentials table as the sequence of its rows   *)
(* (the id and the two dates of a row are read by no code and are left     *)
(* out).                                                                   *)
(***************************************************************************)
\* the rows the unique index idx_user_id makes an insert conflict with
RowsOf(table, userId) == {i \in DOMAIN table : table[i].user_id = userId}

\* an insert without the ON CONFLICT clause and without the unique index
upsert_InsertOnly(table, userId, encryptedToken) ==
    Append(table, [user_id |-> userId, github_token |-> encryptedToken])

\* credentialsDb.upsert: INSERT .. ON CONFLICT(user_id) DO UPDATE SET ..
upsert(table, userId, encryptedToken) ==
    IF RowsOf(table, userId) = {}
    THEN Append(table, [user_id |-> userId, github_token |-> encryptedToken])
    ELSE [i \in DOMAIN table |->
            IF table[i].user_id = userId
            THEN [table[i] EXCEPT !.github_token = encryptedToken]
            ELSE table[i]]

\* credentialsDb.get: SELECT * .. WHERE user_id = ?, the first row or none
dbGet(table, userId) ==
    IF RowsOf(table, userId) = {} THEN None
    ELSE Some(table[CHOOSE i \in RowsOf(table, userId) :
                       \A j \in RowsOf(table, userId) : i <= j])

\* credentialsDb.delete: DELETE .. WHERE user_id = ?
dbDelete(table, userId) == SelectSeq(table, LAMBDA row : row.user_id # userId)

\* an exists that answers for the table and not for the user
dbExists_AnyRow(table, userId) == Len(table) > 0

\* credentialsDb.exists: SELECT COUNT(*) .. WHERE user_id = ?, count > 0
dbExists(table, userId) == Cardinality(RowsOf(table, userId)) > 0

(***************************************************************************)
(* services/credentials.ts                                                 *)
(***************************************************************************)
DEFAULT_USER_ID == "default"

UserIds == {DEFAULT_USER_ID, "user-2"}

\* the code units of 'ghp_' and 'github_pat_'
ClassicPrefix == <<103, 104, 112, 95>>

FineGrainedPrefix == <<103, 105, 116, 104, 117, 98, 95, 112, 97, 116, 95>>

\* [a-zA-Z0-9]
IsAlnum(u) == u \in (48..57) \cup (65..90) \cup (97..122)

\* [a-zA-Z0-9_]
IsWord(u) == IsAlnum(u) \/ u = 95

\* a format check that looks at the prefix only
validateToken_PrefixOnly(token) ==
    \/ Len(token) >= 4 /\ SubSeq(token, 1, 4) = ClassicPrefix
    \/ Len(token) >= 11 /\ SubSeq(token, 1, 11) = FineGrainedPrefix

\* validateToken: /^(ghp_[a-zA-Z0-9]{36}|github_pat_[a-zA-Z0-9_]+)$/.test(token)
validateToken(token) ==
    \/ /\ Len(token) = 40
       /\ SubSeq(token, 1, 4) = ClassicPrefix
       /\ \A i \in 5..40 : IsAlnum(token[i])
    \/ /\ Len(token) >= 12
       /\ SubSeq(token, 1, 11) = FineGrainedPrefix
       /\ \A i \in 12..Len(token) : IsWord(token[i])

\* tokens of the fine-grained form: 'github_pat_A', 'github_pat_B'
Tokens == {FineGrainedPrefix \o <<65>>, FineGrainedPrefix \o <<66>>}

\* a getToken that answers null when the stored blob does not decrypt
getToken_NullOnFailure(table, userId, shortTags) ==
    LET credential == dbGet(table, userId)
    IN  IF credential = None THEN [kind |-> "null", token |-> <<>>]
        ELSE LET out == decrypt(credential[1].github_token, encryptionKey, shortTags)
             IN  IF IsSome(out.text) THEN [kind |-> "token", token |-> out.text[1]]
                 ELSE [kind |-> "null", token |-> <<>>]

\* credentialsService.getToken: null, the token, or a throw
getToken(table, userId, shortTags) ==
    LET credential == dbGet(table, userId)
    IN  IF credential = None THEN [kind |-> "null", token |-> <<>>]
        ELSE LET out == decrypt(credential[1].github_token, encryptionKey, shortTags)
             IN  IF IsSome(out.text) THEN [kind |-> "token", token |-> out.text[1]]
                 ELSE [kind |-> "throw", token |-> <<>>]

\* the Error getToken throws
DecryptError ==
    [message |-> <<"Failed to decrypt stored credentials">>, status |-> 0,
     responseStatus |-> 0, responseErrors |-> <<>>]

\* credentialsService.saveToken: the table afterwards
saveToken(table, token, userId, salt, iv) ==
    upsert(table, userId, encrypt(token, encryptionKey, salt, iv))

\* credentialsService.hasCredentials
hasCredentials(table, userId) == dbExists(table, userId)

\* credentialsService.deleteCredentials: the table afterwards
deleteCredentials(table, userId) == dbDelete(table, userId)

(***************************************************************************)
(* routes/repositories.ts                                                  *)
(***************************************************************************)
\* the SHA-256 digests (32 bytes) of the secrets the model derives keys
\* from, each as the pair of the secret and its digest
Sha256Digests ==
    { \* 'github_pat_A'
      <<FineGrainedPrefix \o <<65>>,
        <<64, 117, 47, 147, 9, 8, 194, 50, 127, 187, 111, 18, 42, 106, 178, 167,
          213, 235, 194, 72, 230, 122, 20, 96, 207, 229, 31, 238, 116, 165, 149, 203>>>>,
      \* 'github_pat_B'
      <<FineGrainedPrefix \o <<66>>,
        <<176, 200, 29, 187, 158, 76, 226, 201, 23, 68, 127, 57, 143, 220, 143, 108,
          162, 235, 64, 97, 185, 23, 71, 91, 233, 238, 53, 174, 182, 134, 143, 239>>>>,
      \* 'ghp_a... (36 times 'a')'
      <<ClassicPrefix \o [i \in 1..36 |-> 97],
        <<186, 148, 254, 249, 70, 6, 15, 94, 85, 103, 34, 209, 241, 244, 229, 230,
          222, 101, 165, 125, 232, 163, 248, 48, 200, 241, 48, 181, 128, 49, 229, 35>>>>,
      \* 'ghp_b... (36 times 'b')'
      <<ClassicPrefix \o [i \in 1..36 |-> 98],
        <<33, 140, 131, 196, 111, 245, 163, 251, 32, 210, 60, 73, 90, 224, 202, 113,
          132, 251, 178, 247, 149, 42, 17, 101, 233, 44, 122, 220, 221, 95, 211, 193>>>>,
      \* 'github_pat_0'
      <<FineGrainedPrefix \o <<48>>,
        <<77, 166, 227, 186, 98, 45, 65, 252, 210, 94, 101, 149, 5, 43, 110, 115,
          114, 23, 185, 134, 16, 128, 166, 210, 91, 102, 121, 71, 174, 215, 214, 163>>>>,
      \* 'github_pat_a'
      <<FineGrainedPrefix \o <<97>>,
        <<64, 69, 54, 128, 52, 66, 72, 226, 104, 91, 175, 112, 252, 65, 112, 158,
          144, 195, 161, 4, 114, 5, 149, 101, 102, 164, 65, 178, 62, 151, 20, 233>>>>,
      \* 'github_pat_AA'
      <<FineGrainedPrefix \o <<65, 65>>,
        <<194, 32, 44, 150, 188, 93, 232, 179, 109, 80, 106, 230, 243, 139, 47, 174,
          39, 234, 142, 209, 112, 36, 29, 171, 216, 98, 224, 202, 216, 134, 90, 95>>>>,
      \* 'github_pat_A_'
      <<FineGrainedPrefix \o <<65, 95>>,
        <<150, 182, 115, 234, 192, 61, 86, 228, 189, 71, 203, 116, 2, 192, 66, 44,
          186, 219, 25, 169, 231, 232, 218, 186, 232, 40, 162, 16, 133, 138, 192, 165>>>>,
      \* 'github_pat_deadbeef'
      <<FineGrainedPrefix \o <<100, 101, 97, 100, 98, 101, 101, 102>>,
        <<175, 80, 221, 118, 229, 107, 237, 138, 39, 31, 87, 88, 212, 243, 4, 193,
          168, 238, 81, 85, 87, 234, 70, 108, 213, 93, 201, 243, 131, 177, 78, 106>>>>,
      \* 'github_pat_11ABCDEFG0'
      <<FineGrainedPrefix \o <<49, 49, 65, 66, 67, 68, 69, 70, 71, 48>>,
        <<129, 165, 241, 72, 233, 99, 190, 21, 129, 119, 243, 130, 45, 44, 78, 177,
          83, 134, 100, 11, 142, 9, 150, 192, 1, 45, 211, 84, 131, 181, 12, 23>>>> }

\* the secrets whose digests are listed
KeySecrets == {p[1] : p \in Sha256Digests}

\* crypto.createHash('sha256').update(token).digest()
sha256(token) == (CHOOSE p \in Sha256Digests : p[1] = token)[2]

\* the character of a hex digit: '0'..'9', 'a'..'f'
HexDigitChar(d) == IF d < 10 THEN 48 + d ELSE 87 + d

\* digest('hex')
HexString(buf) == [i \in 1..(2 * Len(buf)) |-> HexDigitChar(HexEncode(buf)[i])]

\* a key part cut from the token itself
hashToken_TokenPrefix(token) == SubSeq(token, 1, Min(16, Len(token)))

\* sha256(token).digest('hex').substring(0, 16)
hashToken(token) == SubSeq(HexString(sha256(token)), 1, 16)

\* `${CACHE_KEY_PREFIX}${hashToken(token)}`
\* a cache key that does not depend on the token
CacheKeyOf_PrefixOnly(token) == CACHE_KEY_PREFIX

\* const cacheKey = `${CACHE_KEY_PREFIX}${hashToken(token)}`
CacheKeyOf(token) == CACHE_KEY_PREFIX \o hashToken(token)

CacheKeys == {CacheKeyOf(t) : t \in Tokens}

\* the catch block: the response for a thrown error
RouteCatch(error) ==
    IF Includes(error.message, "Bad credentials")
    THEN [status |-> 401, code |-> "BAD_CREDENTIALS"]
    ELSE IF \/ Includes(error.message, "rate limit")
            \/ Includes(error.message, "quota exhausted")
            \/ error.status = 403
            \/ error.responseStatus = 403
            \/ \E i \in DOMAIN error.responseErrors :
                   error.responseErrors[i].type = "RATE_LIMITED"
    THEN [status |-> 429, code |-> "RATE_LIMIT_EXCEEDED", retryAfter |-> 3600]
    ELSE [status |-> 500, code |-> "FETCH_ERROR", message |-> error.message]

\* an answer that turns the absence of a token into an empty success
NoCredentialsResponse_EmptySuccess ==
    [status |-> 200, success |-> TRUE, count |-> 0, repositories |-> <<>>,
     cached |-> FALSE]

\* the 401 sent when no token is stored
NoCredentialsResponse ==
    [status |-> 401, error |-> "No credentials configured. Please set up your GitHub token first."]

\* res.json of a cache hit
CachedResponse(cachedData) ==
    [status |-> 200, success |-> TRUE,
     count |-> Len(cachedData.repositories),
     repositories |-> cachedData.repositories,
     cached |-> TRUE, cachedAt |-> cachedData.timestamp]

\* res.json after a fetch
FreshResponse(repositories) ==
    [status |-> 200, success |-> TRUE, count |-> Len(repositories),
     repositories |-> repositories, cached |-> FALSE]

\* responseData
ResponseData(repositories, t) == [repositories |-> repositories, timestamp |-> t]

\* a handler slot before its first request; calls counts the slot's requests,
\* readCache and muts record whether this request read the cache and how its
\* own steps changed it ("expire", "create", "replace")
ReqIdle(calls) ==
    [pc |-> "idle", token |-> <<>>, bypass |-> FALSE, cacheKey |-> <<>>,
     resp |-> [status |-> 0], calls |-> calls, readCache |-> FALSE, muts |-> {}]

\* the Map after the handler's statements that follow a returned fetch
RouteOnReturn(c, key, repositories, t) ==
    CacheSet(c, key, ResponseData(repositories, t), t)

\* a catch block that stores what the fetch had accumulated
RouteOnThrow_StorePartial(c, key, f, t) ==
    CacheSet(c, key, ResponseData(MapRepositories(f.allRepos), t), t)

\* the Map after the catch block that follows a thrown fetch
RouteOnThrow(c, key, f, t) == c

\* how a handler step changed the Map from c to c2: it replaced the entry of
\* the key, created one, or left the Map alone
WriteKind(c, c2, key) ==
    IF c2 = c THEN {}
    ELSE IF HasKey(c, key) THEN {"replace"} ELSE {"create"}

\* the handler from the point where the fetch was called or resumed, up to
\* its next await or its response; f is the invocation after that step
RouteResume(rq, f, c, t) ==
    IF f.pc = "returned"
    THEN LET c2 == RouteOnReturn(c, rq.cacheKey, f.ret, t)
         IN  [req   |-> [rq EXCEPT !.pc = "done",
                                   !.resp = FreshResponse(f.ret),
                                   !.muts = @ \cup WriteKind(c, c2, rq.cacheKey)],
              cache |-> c2,
              fresh |-> Some(f.ret)]
    ELSE IF f.pc = "threw"
    THEN LET c2 == RouteOnThrow(c, rq.cacheKey, f, t)
         IN  [req   |-> [rq EXCEPT !.pc = "done",
                                   !.resp = RouteCatch(f.err),
                                   !.muts = @ \cup WriteKind(c, c2, rq.cacheKey)],
              cache |-> c2,
              fresh |-> None]
    ELSE [req |-> [rq EXCEPT !.pc = "fetching"], cache |-> c, fresh |-> None]

\* a lookup that is made whatever the refresh parameter says
RouteCacheLookup_AlwaysRead(c, key, bypass, t) ==
    LET g == CacheGet(c, key, CACHE_TTL, t)
    IN  [cache |-> g.cache, result |-> g.result, read |-> TRUE]

\* if (!bypassCache) cacheService.get(cacheKey, CACHE_TTL)
RouteCacheLookup(c, key, bypass, t) ==
    IF bypass THEN [cache |-> c, result |-> None, read |-> FALSE]
    ELSE LET g == CacheGet(c, key, CACHE_TTL, t)
         IN  [cache |-> g.cache, result |-> g.result, read |-> TRUE]

RECURSIVE SumCalls(_)
SumCalls(S) ==
    IF S = {} THEN 0
    ELSE LET r == CHOOSE x \in S : TRUE IN req[r].calls + SumCalls(S \ {r})

\* requests started so far, over all slots
CallsMade == SumCalls(Requests)

\* lastFresh after a handler step
NoteFresh(key, fresh) ==
    IF IsSome(fresh) THEN [lastFresh EXCEPT ![key] = fresh] ELSE lastFresh

\* GET /api/repositories?refresh=...: from the entry of the handler to the
\* first page request, or to the response when there is none
GetRepositories(r, refresh) ==
    /\ req[r].pc \in {"idle", "done"}
    /\ CallsMade < MaxCalls
    /\ \E got \in {getToken(db, DEFAULT_USER_ID, shortTags) : shortTags \in BOOLEAN} :
       LET rq0 == ReqIdle(req[r].calls + 1)
       IN  IF got.kind = "null" \/ (got.kind = "token" /\ got.token = <<>>)
           THEN /\ req' = [req EXCEPT ![r] = [rq0 EXCEPT !.pc = "done",
                                                         !.resp = NoCredentialsResponse]]
                /\ fetch' = [fetch EXCEPT ![r] = FetchIdle]
                /\ UNCHANGED <<cache, lastFresh>>
           ELSE IF got.kind = "throw"
           THEN /\ req' = [req EXCEPT ![r] = [rq0 EXCEPT !.pc = "done",
                                                         !.resp = RouteCatch(DecryptError)]]
                /\ fetch' = [fetch EXCEPT ![r] = FetchIdle]
                /\ UNCHANGED <<cache, lastFresh>>
           ELSE LET key  == CacheKeyOf(got.token)
                    look == RouteCacheLookup(cache, key, refresh, now)
                    rq1  == [rq0 EXCEPT !.token = got.token,
                                        !.bypass = refresh,
                                        !.cacheKey = key,
                                        !.readCache = look.read,
                                        !.muts = IF look.cache # cache
                                                 THEN {"expire"} ELSE {}]
                IN  IF IsSome(look.result)
                    THEN /\ req' = [req EXCEPT ![r] =
                                      [rq1 EXCEPT !.pc = "done",
                                                  !.resp = CachedResponse(look.result[1])]]
                         /\ fetch' = [fetch EXCEPT ![r] = FetchIdle]
                         /\ cache' = look.cache
                         /\ UNCHANGED lastFresh
                    ELSE LET f   == FetchStart
                             out == RouteResume(rq1, f, look.cache, now)
                         IN  /\ req' = [req EXCEPT ![r] = out.req]
                             /\ fetch' = [fetch EXCEPT ![r] = f]
                             /\ cache' = out.cache
                             /\ lastFresh' = NoteFresh(key, out.fresh)
    /\ UNCHANGED <<db, now, ticks, timerActive, peakSize, lastOp, provider, twin>>

\* the awaited page arrives: the loop body, the next test, and either the
\* next page request or the rest of the handler
PageArrives(r) ==
    /\ req[r].pc = "fetching"
    /\ fetch[r].pc = "awaiting"
    /\ \E resp \in PageResponses(fetch[r]) :
         LET f   == FetchOnPage(fetch[r], resp)
             out == RouteResume(req[r], f, cache, now)
         IN  /\ req' = [req EXCEPT ![r] = out.req]
             /\ fetch' = [fetch EXCEPT ![r] = f]
             /\ cache' = out.cache
             /\ lastFresh' = NoteFresh(req[r].cacheKey, out.fresh)
    /\ UNCHANGED <<db, now, ticks, timerActive, peakSize, lastOp, provider, twin>>

\* the awaited page request throws: both catch blocks
PageFails(r) ==
    /\ req[r].pc = "fetching"
    /\ fetch[r].pc = "awaiting"
    /\ \E e \in ProviderErrors :
         LET f   == FetchOnError(fetch[r], e)
             out == RouteResume(req[r], f, cache, now)
         IN  /\ req' = [req EXCEPT ![r] = out.req]
             /\ fetch' = [fetch EXCEPT ![r] = f]
             /\ cache' = out.cache
             /\ lastFresh' = NoteFresh(req[r].cacheKey, out.fresh)
    /\ UNCHANGED <<db, now, ticks, timerActive, peakSize, lastOp, provider, twin>>

(***************************************************************************)
(* routes/credentials.ts                                                   *)
(***************************************************************************)
\* POST /api/credentials with a well-formed token
SaveCredentials(token) ==
    /\ validateToken(token)
    /\ \E salt \in RandomSalts, iv \in RandomIVs :
         db' = saveToken(db, token, DEFAULT_USER_ID, salt, iv)
    /\ UNCHANGED <<cache, now, ticks, timerActive, peakSize, lastOp, fetch, req,
                   lastFresh, provider, twin>>

\* DELETE /api/credentials
DeleteCredentials ==
    /\ db' = deleteCredentials(db, DEFAULT_USER_ID)
    /\ UNCHANGED <<cache, now, ticks, timerActive, peakSize, lastOp, fetch, req,
                   lastFresh, provider, twin>>

(***************************************************************************)
(* The clock and the interval timer                                        *)
(***************************************************************************)
TickSteps == {1, defaultTTL}

NoOp(op) == [op |-> op, key |-> 0, ttl |-> 0, data |-> None, result |-> None,
             present |-> FALSE, evicted |-> {}, user |-> "", prior |-> None,
             calls |-> <<>>]

\* Date.now() advances
Tick(d) ==
    /\ ticks < MaxTicks
    /\ now' = now + d
    /\ ticks' = ticks + 1
    /\ UNCHANGED <<db, cache, timerActive, peakSize, lastOp, fetch, req,
                   lastFresh, provider, twin>>

\* the setInterval callback: this.cleanup()
Sweep ==
    /\ timerActive
    /\ cache' = Cleanup(cache, now)
    /\ UNCHANGED <<db, now, ticks, timerActive, peakSize, lastOp, fetch, req,
                   lastFresh, provider, twin>>

(***************************************************************************)
(* Direct calls of the cache service's methods                             *)
(***************************************************************************)
\* values for set: responseData objects
DataValues == {ResponseData(<<>>, 1 + d) : d \in 1..NumData}

\* keys for get/set/delete: the first OldKeys keys of a pre-filled cache and
\* NewKeys keys that are not in it
OpKeys == (1 .. OldKeys) \cup (MAX_CACHE_SIZE + 1 .. MAX_CACHE_SIZE + NewKeys)

\* ttl arguments for get: 0, which is also what an omitted ttl amounts to in
\* "ttl || this.defaultTTL", and one millisecond
GetTTLs == {0, 1}

\* the keys a call removed from the Map c on the way to c2
KeysRemoved(c, c2) == {c[i].key : i \in DOMAIN c} \ {c2[i].key : i \in DOMAIN c2}

Get(key, ttl) ==
    /\ LET g == CacheGet(cache, key, ttl, now)
       IN  /\ cache' = g.cache
           /\ lastOp' = [NoOp("get") EXCEPT !.key = key, !.ttl = ttl,
                                            !.result = g.result,
                                            !.present = HasKey(cache, key),
                                            !.evicted = KeysRemoved(cache, g.cache)]
    /\ peakSize' = Len(cache)
    /\ UNCHANGED <<db, now, ticks, timerActive, fetch, req, lastFresh, provider, twin>>

Set(key, data) ==
    /\ cache' = CacheSet(cache, key, data, now)
    /\ peakSize' = PeakOf(CacheSetSteps(cache, key, data, now))
    /\ lastOp' = [NoOp("set") EXCEPT !.key = key, !.data = Some(data),
                                    !.present = HasKey(cache, key),
                                    !.evicted = KeysRemoved(cache,
                                        CacheSetSteps(cache, key, data, now)[1])]
    /\ UNCHANGED <<db, now, ticks, timerActive, fetch, req, lastFresh, provider, twin>>

Delete(key) ==
    /\ cache' = CacheDelete(cache, key)
    /\ peakSize' = Len(cache)
    /\ lastOp' = [NoOp("delete") EXCEPT !.key = key,
                                       !.present = HasKey(cache, key)]
    /\ UNCHANGED <<db, now, ticks, timerActive, fetch, req, lastFresh, provider, twin>>

Clear ==
    /\ cache' = CacheClear(cache)
    /\ peakSize' = Len(cache)
    /\ lastOp' = NoOp("clear")
    /\ UNCHANGED <<db, now, ticks, timerActive, fetch, req, lastFresh, provider, twin>>

\* destroy(): clearInterval, then clear
Destroy ==
    /\ timerActive' = FALSE
    /\ cache' = CacheClear(cache)
    /\ peakSize' = Len(cache)
    /\ lastOp' = NoOp("destroy")
    /\ UNCHANGED <<db, now, ticks, fetch, req, lastFresh, provider, twin>>

(***************************************************************************)
(* routes/credentials.ts and direct calls of credentialsService, with the  *)
(* response of each call kept in lastOp.  Every call is also made in a     *)
(* second run, twin, whose secrets are the images under SwapSecret of the  *)
(* secrets of the first.                                                   *)
(***************************************************************************)
\* 'ghp_' and 36 letters
ClassicToken == ClassicPrefix \o [i \in 1..36 |-> 97]

\* secrets that pass the format check
ValidSecrets == Tokens \cup {ClassicToken}

\* strings that fail the format check: 'ghp_A', 'github_pat_', 'ghp_' and 35
\* letters and '-', 'ghp_' and 37 letters, 'github_pat_A\n', 'github_pat_e'
\* with an acute accent, ' github_pat_A', 'A'
MalformedSecrets ==
    { ClassicPrefix \o <<65>>,
      FineGrainedPrefix,
      ClassicPrefix \o [i \in 1..35 |-> 97] \o <<45>>,
      ClassicPrefix \o [i \in 1..37 |-> 97],
      FineGrainedPrefix \o <<65, 10>>,
      FineGrainedPrefix \o <<233>>,
      <<32>> \o FineGrainedPrefix \o <<65>>,
      <<65>> }

\* req.body.token: absent, the empty string, or a string
Bodies == {None, Some(<<>>)} \cup {Some(s) : s \in ValidSecrets \cup MalformedSecrets}

\* the secret the second run uses where the first uses s
SwapSecret(s) ==
    IF s = FineGrainedPrefix \o <<65>> THEN FineGrainedPrefix \o <<66>>
    ELSE IF s = FineGrainedPrefix \o <<66>> THEN ClassicToken
    ELSE IF s = ClassicToken THEN FineGrainedPrefix \o <<65>>
    ELSE s

SwapBody(body) == IF body = None THEN None ELSE Some(SwapSecret(body[1]))

\* a POST handler that tells the caller what is stored
PostHandler_EchoToken(table, body, salt, iv) ==
    [db    |-> table,
     resp  |-> [status |-> 200, success |-> TRUE, message |-> body],
     calls |-> <<>>]

\* router.post('/'): the table afterwards, the response, and the calls made
PostHandler(table, body, salt, iv) ==
    IF body = None \/ body = Some(<<>>)
    THEN [db    |-> table,
          resp  |-> [status |-> 400, error |-> "Token is required"],
          calls |-> <<>>]
    ELSE IF ~validateToken(body[1])
    THEN [db    |-> table,
          resp  |-> [status |-> 400,
                     error |-> "Invalid token format. Expected GitHub PAT (ghp_... or github_pat_...)"],
          calls |-> <<"validateToken">>]
    ELSE [db    |-> saveToken(table, body[1], DEFAULT_USER_ID, salt, iv),
          resp  |-> [status |-> 200, success |-> TRUE,
                     message |-> "Credentials saved successfully"],
          calls |-> <<"validateToken", "encrypt", "upsert">>]

\* router.get('/'): the response
GetHandler(table) ==
    LET exists == hasCredentials(table, DEFAULT_USER_ID)
    IN  [status |-> 200, exists |-> exists,
         message |-> IF exists THEN "Credentials configured"
                     ELSE "No credentials found"]

\* a DELETE handler that answers 404 when there is no row to delete
DeleteHandler_NotFound(table) ==
    IF hasCredentials(table, DEFAULT_USER_ID)
    THEN [db   |-> deleteCredentials(table, DEFAULT_USER_ID),
          resp |-> [status |-> 200, success |-> TRUE,
                    message |-> "Credentials deleted successfully"]]
    ELSE [db   |-> table,
          resp |-> [status |-> 404, error |-> "No credentials found"]]

\* router.delete('/'): the table afterwards and the response
DeleteHandler(table) ==
    [db   |-> deleteCredentials(table, DEFAULT_USER_ID),
     resp |-> [status |-> 200, success |-> TRUE,
               message |-> "Credentials deleted successfully"]]

\* lastOp for a call about userId made on the table
CredOp(op, table, userId) ==
    [NoOp(op) EXCEPT !.user = userId,
                     !.present = dbExists(table, userId),
                     !.prior = dbGet(table, userId)]

\* POST /api/credentials
PostCredentials(body) ==
    /\ \E salt \in RandomSalts, iv \in RandomIVs :
         LET out == PostHandler(db, body, salt, iv)
             two == PostHandler(twin.db, SwapBody(body), salt, iv)
         IN  /\ db' = out.db
             /\ lastOp' = [CredOp("POST", db, DEFAULT_USER_ID) EXCEPT
                              !.data = body, !.result = Some(out.resp),
                              !.calls = out.calls]
             /\ twin' = [db |-> two.db, resp |-> Some(two.resp)]
    /\ UNCHANGED <<cache, now, ticks, timerActive, peakSize, fetch, req,
                   lastFresh, provider>>

\* GET /api/credentials
GetCredentials ==
    /\ lastOp' = [CredOp("GET", db, DEFAULT_USER_ID) EXCEPT
                     !.result = Some(GetHandler(db)),
                     !.calls = <<"exists">>]
    /\ twin' = [twin EXCEPT !.resp = Some(GetHandler(twin.db))]
    /\ UNCHANGED <<db, cache, now, ticks, timerActive, peakSize, fetch, req,
                   lastFresh, provider>>

\* DELETE /api/credentials, with its response
DeleteCredentialsRoute ==
    /\ db' = DeleteHandler(db).db
    /\ lastOp' = [CredOp("DELETE", db, DEFAULT_USER_ID) EXCEPT
                     !.result = Some(DeleteHandler(db).resp),
                     !.calls = <<"delete">>]
    /\ twin' = [db |-> DeleteHandler(twin.db).db,
                resp |-> Some(DeleteHandler(twin.db).resp)]
    /\ UNCHANGED <<cache, now, ticks, timerActive, peakSize, fetch, req,
                   lastFresh, provider>>

\* credentialsService.saveToken(token, userId)
SaveToken(userId, token) ==
    /\ \E salt \in RandomSalts, iv \in RandomIVs :
         /\ db' = saveToken(db, token, userId, salt, iv)
         /\ twin' = [db |-> saveToken(twin.db, SwapSecret(token), userId, salt, iv),
                     resp |-> None]
    /\ lastOp' = [CredOp("saveToken", db, userId) EXCEPT
                     !.data = Some(token), !.calls = <<"encrypt", "upsert">>]
    /\ UNCHANGED <<cache, now, ticks, timerActive, peakSize, fetch, req,
                   lastFresh, provider>>

\* credentialsService.getToken(userId)
GetToken(userId) ==
    /\ \E shortTags \in BOOLEAN :
         lastOp' = [CredOp("getToken", db, userId) EXCEPT
                       !.result = Some(getToken(db, userId, shortTags)),
                       !.calls = <<"get", "decrypt">>]
    /\ twin' = [twin EXCEPT !.resp = None]
    /\ UNCHANGED <<db, cache, now, ticks, timerActive, peakSize, fetch, req,
                   lastFresh, provider>>

\* credentialsService.hasCredentials(userId)
HasCredentials(userId) ==
    /\ lastOp' = [CredOp("hasCredentials", db, userId) EXCEPT
                     !.result = Some([exists |-> hasCredentials(db, userId)]),
                     !.calls = <<"exists">>]
    /\ twin' = [twin EXCEPT !.resp = None]
    /\ UNCHANGED <<db, cache, now, ticks, timerActive, peakSize, fetch, req,
                   lastFresh, provider>>

\* credentialsService.deleteCredentials(userId)
DeleteCredentialsOf(userId) ==
    /\ db' = deleteCredentials(db, userId)
    /\ twin' = [db |-> deleteCredentials(twin.db, userId), resp |-> None]
    /\ lastOp' = [CredOp("deleteCredentials", db, userId) EXCEPT
                     !.calls = <<"delete">>]
    /\ UNCHANGED <<cache, now, ticks, timerActive, peakSize, fetch, req,
                   lastFresh, provider>>

(***************************************************************************)
(* Specifications                                                          *)
(***************************************************************************)
NoLastOp == NoOp("none")

\* the second run before it has begun
NoTwin == [db |-> <<>>, resp |-> None]

\* the process after start-up: empty table, empty cache, timer set; the
\* upstream holds at most MaxRoutePages pages
Init ==
    /\ db = <<>>
    /\ cache = <<>>
    /\ now = 0
    /\ ticks = 0
    /\ timerActive = TRUE
    /\ peakSize = 0
    /\ lastOp = NoLastOp
    /\ fetch = [r \in Requests |-> FetchIdle]
    /\ req = [r \in Requests |-> ReqIdle(0)]
    /\ lastFresh = [k \in CacheKeys |-> None]
    /\ provider = [pages |-> MaxRoutePages, nullCursors |-> MaxNullCursors]
    /\ twin = NoTwin

Next ==
    \/ \E r \in Requests, refresh \in BOOLEAN : GetRepositories(r, refresh)
    \/ \E r \in Requests : PageArrives(r)
    \/ \E r \in Requests : PageFails(r)
    \/ \E t \in Tokens : SaveCredentials(t)
    \/ DeleteCredentials
    \/ \E d \in TickSteps : Tick(d)
    \/ Sweep

Spec == Init /\ [][Next]_vars

\* one request against an upstream that holds more pages than MAX_PAGES:
\* a token is stored, the cache is empty, slot 1 makes a single call
InitFetch ==
    /\ \E t \in Tokens, salt \in RandomSalts, iv \in RandomIVs :
         db = saveToken(<<>>, t, DEFAULT_USER_ID, salt, iv)
    /\ cache = <<>>
    /\ now = 0
    /\ ticks = 0
    /\ timerActive = TRUE
    /\ peakSize = 0
    /\ lastOp = NoLastOp
    /\ fetch = [r \in Requests |-> FetchIdle]
    /\ req = [r \in Requests |-> ReqIdle(IF r = 1 THEN MaxCalls - 1 ELSE 0)]
    /\ lastFresh = [k \in CacheKeys |-> None]
    /\ provider = [pages |-> MAX_PAGES + 1, nullCursors |-> 0]
    /\ twin = NoTwin

NextFetch ==
    \/ \E r \in Requests, refresh \in BOOLEAN : GetRepositories(r, refresh)
    \/ \E r \in Requests : PageArrives(r)
    \/ \E r \in Requests : PageFails(r)

SpecFetch == InitFetch /\ [][NextFetch]_vars

\* one request against an upstream of NullCursorPages pages that gives up to
\* NullCursorsServed responses without an endCursor while it signals more
InitFetchNull ==
    /\ \E t \in Tokens, salt \in RandomSalts, iv \in RandomIVs :
         db = saveToken(<<>>, t, DEFAULT_USER_ID, salt, iv)
    /\ cache = <<>>
    /\ now = 0
    /\ ticks = 0
    /\ timerActive = TRUE
    /\ peakSize = 0
    /\ lastOp = NoLastOp
    /\ fetch = [r \in Requests |-> FetchIdle]
    /\ req = [r \in Requests |-> ReqIdle(IF r = 1 THEN MaxCalls - 1 ELSE 0)]
    /\ lastFresh = [k \in CacheKeys |-> None]
    /\ provider = [pages |-> NullCursorPages, nullCursors |-> NullCursorsServed]
    /\ twin = NoTwin

SpecFetchNull == InitFetchNull /\ [][NextFetch]_vars

\* the same with the clock and the interval timer.  Time passes and a timer
\* that is due fires; nothing obliges the provider to answer a page request
\* or a client to send a request.
NextFetchLive ==
    \/ NextFetch
    \/ \E d \in TickSteps : Tick(d)
    \/ Sweep

SpecFetchLive ==
    /\ InitFetch
    /\ [][NextFetchLive]_vars
    /\ WF_vars(\E d \in TickSteps : Tick(d))
    /\ WF_vars(Sweep)

\* a cache that n distinct keys were set in, one millisecond apart
Prefilled(n) ==
    [i \in 1..n |-> [key |-> i, data |-> ResponseData(<<>>, 1), timestamp |-> i]]

\* the cache service alone: empty, or filled to within InitGap of capacity
InitCache ==
    /\ db = <<>>
    /\ \E n \in {0} \cup (MAX_CACHE_SIZE - InitGap .. MAX_CACHE_SIZE) :
         /\ cache = Prefilled(n)
         /\ now = n
         /\ peakSize = n
    /\ ticks = 0
    /\ timerActive = TRUE
    /\ lastOp = NoLastOp
    /\ fetch = [r \in Requests |-> FetchIdle]
    /\ req = [r \in Requests |-> ReqIdle(0)]
    /\ lastFresh = [k \in CacheKeys |-> None]
    /\ provider = [pages |-> MaxRoutePages, nullCursors |-> MaxNullCursors]
    /\ twin = NoTwin

NextCache ==
    \/ \E k \in OpKeys, ttl \in GetTTLs : Get(k, ttl)
    \/ \E k \in OpKeys, d \in DataValues : Set(k, d)
    \/ \E k \in OpKeys : Delete(k)
    \/ Clear
    \/ Sweep
    \/ Destroy
    \/ \E d \in TickSteps : Tick(d)

SpecCache == InitCache /\ [][NextCache]_vars

\* a blob whose decoded byte at offset i (from 0) was changed
Tampered(blob, i) ==
    LET buf == Base64Decode(blob)
    IN  Base64Encode([j \in 1..Len(buf) |->
                         IF j = i + 1 THEN (buf[j] + 1) % 256 ELSE buf[j]])

\* a blob cut to its first n decoded bytes
CutShort(blob, n) == Base64Encode(Subarray(Base64Decode(blob), 0, n))

\* blobs a table file can hold that the running process did not write: one
\* written under another ENCRYPTION_KEY, ones with a changed byte in the
\* salt, the iv, the tag or the ciphertext, and ones cut short
ForeignBlobs ==
    LET salt == CHOOSE x \in RandomSalts : TRUE
        iv   == CHOOSE x \in RandomIVs : TRUE
        t    == FineGrainedPrefix \o <<65>>
        blob == encrypt(t, encryptionKey, salt, iv)
    IN  {encrypt(t, "a-strong-key", salt, iv)}
          \cup {Tampered(blob, i) :
                  i \in {0, SALT_LENGTH, SALT_LENGTH + IV_LENGTH,
                         SALT_LENGTH + IV_LENGTH + TAG_LENGTH}}
          \cup {CutShort(blob, n) :
                  n \in {0, SALT_LENGTH + 6, SALT_LENGTH + IV_LENGTH + 12}}

\* the table a start of the process can find: none yet, one row written by an
\* earlier run under the same key, or one row with a foreign blob
InitTables ==
    {<<>>}
      \cup {saveToken(<<>>, t, DEFAULT_USER_ID, salt, iv) :
              t \in ValidSecrets, salt \in RandomSalts, iv \in RandomIVs}
      \cup {upsert(<<>>, DEFAULT_USER_ID, blob) : blob \in ForeignBlobs}

\* the table of the second run: the same, with the image of the secret
TwinTable(table) ==
    IF table = <<>> THEN <<>>
    ELSE LET out == decrypt(table[1].github_token, encryptionKey, TRUE)
         IN  IF IsSome(out.text) /\ Len(Base64Decode(table[1].github_token)) >=
                                       SALT_LENGTH + IV_LENGTH + TAG_LENGTH
             THEN saveToken(<<>>, SwapSecret(out.text[1]), DEFAULT_USER_ID,
                            Subarray(Base64Decode(table[1].github_token), 0,
                                     SALT_LENGTH),
                            Subarray(Base64Decode(table[1].github_token),
                                     SALT_LENGTH, SALT_LENGTH + IV_LENGTH))
             ELSE table

\* the credentials routes and service alone; the cache holds one entry
InitCred ==
    /\ \E table \in InitTables :
         /\ db = table
         /\ twin = [db |-> TwinTable(table), resp |-> None]
    /\ cache = <<[key |-> CacheKeyOf(FineGrainedPrefix \o <<65>>),
                  data |-> ResponseData(<<>>, 0), timestamp |-> 0]>>
    /\ now = 0
    /\ ticks = 0
    /\ timerActive = TRUE
    /\ peakSize = 0
    /\ lastOp = NoLastOp
    /\ fetch = [r \in Requests |-> FetchIdle]
    /\ req = [r \in Requests |-> ReqIdle(0)]
    /\ lastFresh = [k \in CacheKeys |-> None]
    /\ provider = [pages |-> MaxRoutePages, nullCursors |-> MaxNullCursors]

NextCred ==
    \/ \E body \in Bodies : PostCredentials(body)
    \/ GetCredentials
    \/ DeleteCredentialsRoute
    \/ \E u \in UserIds, t \in ValidSecrets : SaveToken(u, t)
    \/ \E u \in UserIds : GetToken(u)
    \/ \E u \in UserIds : HasCredentials(u)
    \/ \E u \in UserIds : DeleteCredentialsOf(u)

SpecCred == InitCred /\ [][NextCred]_vars

(***************************************************************************)
(* services/encryption.ts alone: encrypt and decrypt applied to strings    *)
(* under the master key the process was started with (lastOp.user).        *)
(***************************************************************************)
MaxTextLen == 2

\* code units the strings are made of: 'A', U+00E9, U+20AC, and the two
\* halves of U+1F600 (a high and a low surrogate)
CodeUnits == {65, 233, 8364, 55357, 56832}

\* the strings of at most MaxTextLen code units
Texts == UNION {[1..n -> CodeUnits] : n \in 0..MaxTextLen}

\* decoded lengths below SALT_LENGTH + IV_LENGTH + TAG_LENGTH
ShortLengths ==
    {0, 40, SALT_LENGTH, SALT_LENGTH + 6, SALT_LENGTH + IV_LENGTH,
     SALT_LENGTH + IV_LENGTH + 4, SALT_LENGTH + IV_LENGTH + 12,
     SALT_LENGTH + IV_LENGTH + TAG_LENGTH - 1}

\* encrypt(text)
Encrypt(text) ==
    /\ \E salt \in RandomSalts, iv \in RandomIVs :
         lastOp' = [NoOp("encrypt") EXCEPT
                       !.user = lastOp.user,
                       !.data = Some(text),
                       !.result = Some(encrypt(text, lastOp.user, salt, iv))]
    /\ UNCHANGED <<db, cache, now, ticks, timerActive, peakSize, fetch, req,
                   lastFresh, provider, twin>>

\* decrypt(encryptedData) of what encrypt has just returned
Decrypt ==
    /\ lastOp.op = "encrypt"
    /\ \E shortTags \in BOOLEAN :
         LET out == decrypt(lastOp.result[1], lastOp.user, shortTags)
         IN  lastOp' = [NoOp("decrypt") EXCEPT
                           !.user = lastOp.user,
                           !.data = lastOp.data,
                           !.prior = lastOp.result,
                           !.result = Some([threw |-> out.threw, text |-> out.text]),
                           !.calls = out.steps]
    /\ UNCHANGED <<db, cache, now, ticks, timerActive, peakSize, fetch, req,
                   lastFresh, provider, twin>>

\* decrypt(encryptedData) of the first n decoded bytes of what encrypt has
\* just returned
DecryptShort(n) ==
    /\ lastOp.op = "encrypt"
    /\ \E shortTags \in BOOLEAN :
         LET input == CutShort(lastOp.result[1], n)
             out   == decrypt(input, lastOp.user, shortTags)
         IN  lastOp' = [NoOp("decryptShort") EXCEPT
                           !.user = lastOp.user,
                           !.data = lastOp.data,
                           !.prior = Some(input),
                           !.result = Some([threw |-> out.threw, text |-> out.text]),
                           !.calls = out.steps]
    /\ UNCHANGED <<db, cache, now, ticks, timerActive, peakSize, fetch, req,
                   lastFresh, provider, twin>>

\* the process after start-up under one of the master keys
InitCrypt ==
    /\ \E k \in MasterKeys : lastOp = [NoOp("start") EXCEPT !.user = k]
    /\ db = <<>>
    /\ cache = <<>>
    /\ now = 0
    /\ ticks = 0
    /\ timerActive = TRUE
    /\ peakSize = 0
    /\ fetch = [r \in Requests |-> FetchIdle]
    /\ req = [r \in Requests |-> ReqIdle(0)]
    /\ lastFresh = [k \in CacheKeys |-> None]
    /\ provider = [pages |-> MaxRoutePages, nullCursors |-> MaxNullCursors]
    /\ twin = NoTwin

NextCrypt ==
    \/ \E text \in Texts : Encrypt(text)
    \/ Decrypt
    \/ \E n \in ShortLengths : DecryptShort(n)

SpecCrypt == InitCrypt /\ [][NextCrypt]_vars

(***************************************************************************)
(* routes/repositories.ts, the cache key alone: the key is derived for one *)
(* secret after another; lastOp.prior keeps the secret and the key of the  *)
(* derivation before.                                                      *)
(***************************************************************************)
\* const cacheKey = `${CACHE_KEY_PREFIX}${hashToken(token)}`
DeriveCacheKey(token) ==
    /\ lastOp' = [NoOp("cacheKey") EXCEPT
                     !.data = Some(token),
                     !.result = Some(CacheKeyOf(token)),
                     !.prior = IF lastOp.op = "cacheKey"
                               THEN Some([token |-> lastOp.data[1],
                                          key |-> lastOp.result[1]])
                               ELSE None]
    /\ UNCHANGED <<db, cache, now, ticks, timerActive, peakSize, fetch, req,
                   lastFresh, provider, twin>>

InitKey ==
    /\ lastOp = NoLastOp
    /\ db = <<>>
    /\ cache = <<>>
    /\ now = 0
    /\ ticks = 0
    /\ timerActive = TRUE
    /\ peakSize = 0
    /\ fetch = [r \in Requests |-> FetchIdle]
    /\ req = [r \in Requests |-> ReqIdle(0)]
    /\ lastFresh = [k \in CacheKeys |-> None]
    /\ provider = [pages |-> MaxRoutePages, nullCursors |-> MaxNullCursors]
    /\ twin = NoTwin

NextKey == \E token \in KeySecrets : DeriveCacheKey(token)

SpecKey == InitKey /\ [][NextKey]_vars

(***************************************************************************)
(* Properties of fetchRepositories (SpecFetch)                             *)
(***************************************************************************)
RECURSIVE ProviderRecords(_)
\* the records of the pages served, page after page, each page in its order
ProviderRecords(pages) ==
    IF pages = <<>> THEN <<>>
    ELSE ProviderRecords(SubSeq(pages, 1, Len(pages) - 1))
           \o PageNodes(pages[Len(pages)].cursor)

\* the last page received signalled no further page
EndSignalled(f) == Len(f.pages) >= 1 /\ ~f.pages[Len(f.pages)].hasNextPage

\* every page received signalled a further page
AlwaysMore(f) == \A i \in DOMAIN f.pages : f.pages[i].hasNextPage

\* a request was issued and the await on it threw
RequestFailed(f) == f.pc # "awaiting" /\ Len(f.sent) = Len(f.pages) + 1

\* C1: when the provider serves N pages, 1 <= N <= MAX_PAGES, of which only
\* the last signals hasNextPage = false, the invocation has returned after
\* exactly N page requests, and what it returns is the pages' records in
\* request order, one output record per provider record: none dropped,
\* duplicated, deduplicated or reordered.
C1_PaginationComplete ==
    \A r \in Requests :
      LET f == fetch[r]
          N == Len(f.pages)
          expected == ProviderRecords(f.pages)
      IN  EndSignalled(f) =>
            /\ N <= MAX_PAGES
            /\ \A i \in 1..(N - 1) : f.pages[i].hasNextPage
            /\ f.pc = "returned"
            /\ Len(f.sent) = N
            /\ Len(f.ret) = Len(expected)
            /\ \A k \in DOMAIN expected : f.ret[k] = MapRepository(expected[k])
            /\ req[r].pc = "done"
            /\ req[r].resp = FreshResponse(f.ret)

\* C1 witness: MAX_PAGES pages were served, the last one ending the data set,
\* and the records (ids repeat among them) were returned
C1_Witness ==
    \E r \in Requests :
      /\ EndSignalled(fetch[r])
      /\ Len(fetch[r].pages) = MAX_PAGES
      /\ fetch[r].pc = "returned"
      /\ Len(fetch[r].ret) > MAX_PAGES \div 2
      /\ \E i, j \in DOMAIN fetch[r].ret : i # j /\ fetch[r].ret[i] = fetch[r].ret[j]

\* C2: against a provider that signals hasNextPage = true on every page the
\* invocation never issues more than MAX_PAGES page requests; once MAX_PAGES
\* pages are in it has returned, with exactly MAX_PAGES requests made, the
\* records of those pages as its result and a success response.
C2_PaginationCeiling ==
    \A r \in Requests :
      LET f == fetch[r]
      IN  /\ Len(f.sent) <= MAX_PAGES
          /\ AlwaysMore(f) /\ ~RequestFailed(f) /\ f.pc # "idle" =>
               /\ Len(f.pages) < MAX_PAGES => f.pc = "awaiting"
               /\ Len(f.pages) = MAX_PAGES =>
                    /\ f.pc = "returned"
                    /\ Len(f.sent) = MAX_PAGES
                    /\ f.ret = MapRepositories(ProviderRecords(f.pages))
                    /\ req[r].pc = "done"
                    /\ req[r].resp.status = 200
                    /\ req[r].resp.success
                    /\ req[r].resp.repositories = f.ret

\* C2 witness: the ceiling was reached with more pages signalled
C2_Witness ==
    \E r \in Requests :
      /\ AlwaysMore(fetch[r])
      /\ Len(fetch[r].pages) = MAX_PAGES
      /\ fetch[r].pc = "returned"
      /\ req[r].resp.status = 200

\* the page ceiling was hit while the provider still signalled more pages
Truncated(f) ==
    /\ f.pc = "returned"
    /\ Len(f.pages) >= MAX_PAGES
    /\ f.pages[Len(f.pages)].hasNextPage

\* the response is the plain success response for its records, with the
\* fields status, success, count, repositories and cached = false only
PlainResponse(resp) ==
    /\ resp.status = 200
    /\ resp = [status |-> 200, success |-> TRUE,
               count |-> Len(resp.repositories),
               repositories |-> resp.repositories, cached |-> FALSE]

C4_FailureEndsInvocation ==
    \A r \in Requests :
      LET f == fetch[r]
      IN  /\ Len(f.sent) <= Len(f.pages) + 1
          /\ RequestFailed(f) =>
               /\ f.pc = "threw"
               /\ f.ret = <<>>
               /\ f.err # NoError
               /\ req[r].pc = "done"
               /\ req[r].resp.status \in {401, 429, 500}
               /\ "repositories" \notin DOMAIN req[r].resp
               /\ "success" \notin DOMAIN req[r].resp

\* C4 witness: a page request failed after pages with records had come in
C4_Witness ==
    \E r \in Requests :
      /\ RequestFailed(fetch[r])
      /\ fetch[r].pc = "threw"
      /\ Len(fetch[r].pages) >= 2
      /\ Len(fetch[r].allRepos) > 0
      /\ req[r].resp.status = 500

(***************************************************************************)
(* Properties of GET /api/repositories with the cache (Spec)               *)
(***************************************************************************)
\* this step is the entry of a request in slot r
EntryStep(r) == req'[r].calls = req[r].calls + 1

\* this step ends the fetch of the request in slot r
CompletesFetch(r) == req[r].pc = "fetching" /\ req'[r].pc = "done"

\* the entries of a Map, as a set
Entries(c) == {c[i] : i \in DOMAIN c}

\* C5 as stated: a call whose aggregation failed has left the cache exactly
\* as it was: none of its own steps changed the Map.
C5_Original ==
    \A r \in Requests :
      req[r].pc = "done" /\ fetch[r].pc = "threw" => req[r].muts = {}

\* C5 amended: a call whose aggregation fails writes nothing to the cache.
\* The step in which the fetch throws leaves the Map unchanged; the only
\* change such a call can have made is the removal, by the lookup at its entry
\* with forceRefresh = false, of its key's own expired entry, and with
\* forceRefresh = true it made none.  An entry is created or replaced only in
\* the step that ends a fetch which returned, and it is the entry of that
\* request's key.
C5_FailureWritesNothing ==
    [][ /\ \A r \in Requests :
             /\ CompletesFetch(r) /\ fetch'[r].pc = "threw" => cache' = cache
             /\ req'[r].pc = "done" /\ fetch'[r].pc = "threw" =>
                  /\ req'[r].muts \subseteq {"expire"}
                  /\ req'[r].bypass => req'[r].muts = {}
             /\ EntryStep(r) =>
                  \/ cache' = cache
                  \/ /\ ~req'[r].bypass
                     /\ req'[r].pc = "fetching"
                     /\ HasKey(cache, req'[r].cacheKey)
                     /\ now - MapGet(cache, req'[r].cacheKey)[1].timestamp > CACHE_TTL
                     /\ cache' = MapDelete(cache, req'[r].cacheKey)
        /\ \A e \in Entries(cache') \ Entries(cache) :
             \E r \in Requests :
               /\ CompletesFetch(r)
               /\ fetch'[r].pc = "returned"
               /\ req'[r].resp.status = 200
               /\ e.key = req[r].cacheKey
      ]_vars

\* C5 witness: after three records had been accumulated on a refresh of a key
\* that has an entry, the fetch failed; the entry still holds its old record
C5_Witness ==
    \E r \in Requests :
      /\ req[r].pc = "done"
      /\ fetch[r].pc = "threw"
      /\ req[r].bypass
      /\ Len(fetch[r].allRepos) > 0
      /\ HasKey(cache, req[r].cacheKey)
      /\ MapGet(cache, req[r].cacheKey)[1].data.repositories # MapRepositories(fetch[r].allRepos)

\* C6: a call with forceRefresh = false, made while the cache holds for the
\* stored secret's key an entry whose age is at most the TTL, is answered at
\* once with fromCache = true and the entry's records, which are the records
\* of the last successful fresh call for that key; it issues no request to the
\* provider and leaves the cache as it is.
C6_CacheHit ==
    [][ \A r \in Requests :
          LET got == getToken(db, DEFAULT_USER_ID, TRUE)
              key == CacheKeyOf(got.token)
          IN  (/\ EntryStep(r)
               /\ got.kind = "token"
               /\ ~req'[r].bypass
               /\ HasKey(cache, key)
               /\ now - MapGet(cache, key)[1].timestamp <= CACHE_TTL)
              =>
              (/\ req'[r].pc = "done"
               /\ req'[r].resp.status = 200
               /\ req'[r].resp.cached
               /\ req'[r].resp.repositories = MapGet(cache, key)[1].data.repositories
               /\ lastFresh[key] = Some(req'[r].resp.repositories)
               /\ req'[r].resp.count = Len(req'[r].resp.repositories)
               /\ fetch'[r].sent = <<>>
               /\ fetch'[r].pc = "idle"
               /\ cache' = cache)
      ]_vars

\* C6 witness: a cached response with records, given when the entry's age was
\* exactly the TTL
C6_Witness ==
    \E r \in Requests :
      /\ req[r].pc = "done"
      /\ req[r].resp.status = 200
      /\ req[r].resp.cached
      /\ req[r].resp.count > 0
      /\ fetch[r].sent = <<>>
      /\ now - req[r].resp.cachedAt = CACHE_TTL

\* C7: a call with forceRefresh = true does not read the cache: whatever the
\* cache holds, its entry step leaves the Map alone and issues a page request,
\* and its success response has fromCache = false.  The step that ends its
\* fetch with success leaves for its key exactly one entry, holding the new
\* records only and stored_at = now, and leaves every other entry as it was.
C7_RefreshBypassesAndReplaces ==
    [][ \A r \in Requests :
          /\ EntryStep(r) /\ req'[r].bypass =>
               /\ ~req'[r].readCache
               /\ cache' = cache
               /\ req'[r].pc = "fetching"
               /\ fetch'[r].pc = "awaiting"
               /\ fetch'[r].sent = <<NoCursor>>
          /\ req'[r].bypass /\ req'[r].pc = "done" /\ req'[r].resp.status = 200 =>
               /\ ~req'[r].resp.cached
               /\ ~req'[r].readCache
               /\ Len(fetch'[r].sent) >= 1
          /\ CompletesFetch(r) /\ req[r].bypass /\ fetch'[r].pc = "returned" =>
               LET key == req[r].cacheKey
                   new == MapRepositories(ProviderRecords(fetch'[r].pages))
               IN  /\ req'[r].resp = FreshResponse(new)
                   /\ {e \in Entries(cache') : e.key = key} =
                        {[key |-> key, data |-> [repositories |-> new, timestamp |-> now],
                          timestamp |-> now]}
                   /\ {e \in Entries(cache') : e.key # key} =
                        {e \in Entries(cache) : e.key # key}
                   /\ Len(cache') = Cardinality(Entries(cache'))
      ]_vars

\* C7 witness: a refresh answered with fresh records while the cache held an
\* entry for the key, which it replaced
C7_Witness ==
    \E r \in Requests :
      /\ req[r].bypass
      /\ req[r].pc = "done"
      /\ req[r].resp.status = 200
      /\ ~req[r].resp.cached
      /\ "replace" \in req[r].muts
      /\ \E q \in Requests \ {r} :
           /\ req[q].pc = "done"
           /\ req[q].resp.status = 200
           /\ req[q].cacheKey = req[r].cacheKey
           /\ req[q].resp.repositories # req[r].resp.repositories

(***************************************************************************)
(* Properties of CacheService (SpecCache)                                  *)
(***************************************************************************)
\* C8 as stated: get(key, maxAge) on a present entry returns the stored value
\* and leaves the Map alone when now - stored_at <= maxAge; otherwise it
\* removes that entry, leaving the others, and returns None, and the key is
\* then absent.
C8_GetHonoursMaxAge ==
    [][ \A k \in OpKeys, maxAge \in GetTTLs :
          Get(k, maxAge) /\ HasKey(cache, k) =>
            LET entry == MapGet(cache, k)[1]
            IN  IF now - entry.timestamp <= maxAge
                THEN /\ lastOp'.result = Some(entry.data)
                     /\ cache' = cache
                ELSE /\ lastOp'.result = None
                     /\ ~HasKey(cache', k)
                     /\ cache' = MapDelete(cache, k)
      ]_vars

\* C8 witness: get(key, 0) on an entry stored earlier returned the stored
\* value and left the entry in the Map
C8_Witness ==
    /\ lastOp.op = "get"
    /\ lastOp.ttl = 0
    /\ lastOp.present
    /\ IsSome(lastOp.result)
    /\ HasKey(cache, lastOp.key)
    /\ now - MapGet(cache, lastOp.key)[1].timestamp > 0

\* C9: in every state of the cache service, and in the steps inside set
\* (after its eviction and after its insertion), the Map holds at most
\* MAX_CACHE_SIZE entries.
C9_CapacityNeverExceeded ==
    /\ Len(cache) <= MAX_CACHE_SIZE
    /\ peakSize <= MAX_CACHE_SIZE

\* C9 witness: a set on a full Map evicted an entry and left the Map full
C9_Witness ==
    /\ lastOp.op = "set"
    /\ lastOp.evicted # {}
    /\ peakSize = MAX_CACHE_SIZE
    /\ Len(cache) = MAX_CACHE_SIZE

\* C10: set with a key that is not in a Map of exactly MAX_CACHE_SIZE entries
\* removes exactly one entry, one of smallest timestamp, adds the new entry
\* with timestamp now, keeps every other entry as it was, and leaves the Map
\* with exactly MAX_CACHE_SIZE entries.
C10_EvictsExactlyOldest ==
    [][ \A k \in OpKeys, d \in DataValues :
          Len(cache) = MAX_CACHE_SIZE /\ ~HasKey(cache, k) /\ Set(k, d) =>
            LET before  == Entries(cache)
                after   == Entries(cache')
                removed == before \ after
            IN  /\ Cardinality(removed) = 1
                /\ \A e \in removed : \A j \in DOMAIN cache :
                       e.timestamp <= cache[j].timestamp
                /\ after \ before = {[key |-> k, data |-> d, timestamp |-> now]}
                /\ Len(cache') = MAX_CACHE_SIZE
                /\ Cardinality(after) = MAX_CACHE_SIZE
                /\ HasKey(cache', k)
      ]_vars

\* C10 witness: a set of a new key on a full Map evicted one entry, which was
\* not the first in insertion order, and the Map holds the new key
C10_Witness ==
    /\ lastOp.op = "set"
    /\ ~lastOp.present
    /\ Cardinality(lastOp.evicted) = 1
    /\ Len(cache) = MAX_CACHE_SIZE
    /\ HasKey(cache, lastOp.key)
    /\ 1 \notin lastOp.evicted
    /\ HasKey(cache, 1)

\* C11 as stated: set with a key that is already in the Map evicts nothing,
\* also when the Map is full: the keys and the size are unchanged, every other
\* entry is as it was, and the key's entry holds the new value and timestamp.
C11_OverwriteEvictsNothing ==
    [][ \A k \in OpKeys, d \in DataValues :
          HasKey(cache, k) /\ Set(k, d) =>
            /\ {e.key : e \in Entries(cache')} = {e.key : e \in Entries(cache)}
            /\ Len(cache') = Len(cache)
            /\ {e \in Entries(cache') : e.key # k} =
                 {e \in Entries(cache) : e.key # k}
            /\ MapGet(cache', k) = Some([key |-> k, data |-> d, timestamp |-> now])
      ]_vars

\* C11 witness: a set of a key that was in a full Map evicted the entry of
\* another key and left the Map one entry short of its capacity
C11_Witness ==
    /\ lastOp.op = "set"
    /\ lastOp.present
    /\ lastOp.evicted # {}
    /\ lastOp.key \notin lastOp.evicted
    /\ Len(cache) = MAX_CACHE_SIZE - 1

\* C12 as stated: once destroy() has run the cache service is in a terminal
\* state: the timer stays cleared, the Map holds no entries in any later
\* state, so a set stores nothing and a get returns no value.
C12_DestroyIsTerminal ==
    [][ /\ ~timerActive => ~timerActive'
        /\ ~timerActive' =>
             /\ cache' = <<>>
             /\ lastOp'.op = "get" => lastOp'.result = None
      ]_vars

\* C12 witness: after destroy() a set stored an entry and a get returned its
\* value, while the timer is cleared
C12_Witness ==
    /\ ~timerActive
    /\ lastOp.op = "get"
    /\ IsSome(lastOp.result)
    /\ HasKey(cache, lastOp.key)

(***************************************************************************)
(* Properties of the credentials store (SpecCred)                          *)
(***************************************************************************)
\* the secret a row's blob decrypts to under the process's key, if it does
SecretOf(row) == decrypt(row.github_token, encryptionKey, TRUE).text

\* C13: after any sequence of saves and deletes the table holds at most one
\* row per identity; after a save for an identity, also one that follows
\* another save for it, the table holds exactly one row for the identity and
\* getToken returns the secret of that last save.
C13_OneRecordPerIdentity ==
    /\ \A u \in UserIds : Cardinality(RowsOf(db, u)) <= 1
    /\ (\/ lastOp.op = "saveToken"
        \/ lastOp.op = "POST" /\ lastOp.result[1].status = 200) =>
         /\ Cardinality(RowsOf(db, lastOp.user)) = 1
         /\ \A shortTags \in BOOLEAN :
              getToken(db, lastOp.user, shortTags) =
                [kind |-> "token", token |-> lastOp.data[1]]

\* C13 witness: a save for an identity that already had a row with another
\* secret, while the other identity has a row too
C13_Witness ==
    /\ lastOp.op = "saveToken"
    /\ lastOp.present
    /\ IsSome(SecretOf(lastOp.prior[1]))
    /\ SecretOf(lastOp.prior[1]) # lastOp.data
    /\ Len(db) = 2
    /\ Cardinality(RowsOf(db, lastOp.user)) = 1

\* the rows of the identities other than userId
OtherRows(table, userId) == SelectSeq(table, LAMBDA row : row.user_id # userId)

\* this step is the call op of the credentials service or router for userId
CredStep(op, userId) == lastOp'.op = op /\ lastOp'.user = userId

\* C14: deleting is idempotent: a delete for an identity without a row
\* succeeds and changes nothing; after a delete the identity has no row,
\* hasCredentials is false, getToken returns null, and a further delete
\* leaves the same table; the rows of other identities are kept.
C14_DeleteIdempotent ==
    [][ /\ \A u \in UserIds :
             CredStep("deleteCredentials", u) =>
               /\ RowsOf(db, u) = {} => db' = db
               /\ RowsOf(db', u) = {}
               /\ ~hasCredentials(db', u)
               /\ \A shortTags \in BOOLEAN :
                    getToken(db', u, shortTags).kind = "null"
               /\ deleteCredentials(db', u) = db'
               /\ OtherRows(db', u) = OtherRows(db, u)
        /\ CredStep("DELETE", DEFAULT_USER_ID) =>
               /\ lastOp'.result =
                    Some([status |-> 200, success |-> TRUE,
                          message |-> "Credentials deleted successfully"])
               /\ RowsOf(db, DEFAULT_USER_ID) = {} => db' = db
               /\ db' = deleteCredentials(db, DEFAULT_USER_ID)
               /\ ~dbExists(db', DEFAULT_USER_ID)
               /\ DeleteHandler(db').db = db'
               /\ OtherRows(db', DEFAULT_USER_ID) = OtherRows(db, DEFAULT_USER_ID)
      ]_vars

\* C14 witness: DELETE /api/credentials answered with success when the
\* identity had no row, and the row of the other identity is still there
C14_Witness ==
    /\ lastOp.op = "DELETE"
    /\ ~lastOp.present
    /\ lastOp.result[1].status = 200
    /\ lastOp.result[1].success
    /\ Len(db) = 1

\* C15: getToken returns null exactly when the identity has no row.  When the
\* row's blob is one the process cannot decrypt (written under another key,
\* changed, or cut short) getToken throws and returns nothing; when it
\* returns a secret the blob is an encryption of exactly that secret.  In
\* every case the table is left as it is.
C15_DecryptionFailureSurfaces ==
    [][ \A u \in UserIds :
          CredStep("getToken", u) =>
            LET got == lastOp'.result[1]
                row == dbGet(db, u)
            IN  /\ db' = db
                /\ got.kind = "null" <=> row = None
                /\ row # None /\ row[1].github_token \in ForeignBlobs =>
                     got = [kind |-> "throw", token |-> <<>>]
                /\ got.kind = "token" =>
                     row[1].github_token \in
                       {encrypt(got.token, encryptionKey, salt, iv) :
                          salt \in RandomSalts, iv \in RandomIVs}
      ]_vars

\* C15 witness: getToken threw for an identity whose row is still in the
\* table, unchanged
C15_Witness ==
    /\ lastOp.op = "getToken"
    /\ lastOp.present
    /\ lastOp.result[1].kind = "throw"
    /\ IsSome(lastOp.prior)
    /\ dbGet(db, lastOp.user) = lastOp.prior
    /\ lastOp.prior[1].github_token \in ForeignBlobs

\* C16: a POST whose token is missing, empty or fails the format check is
\* answered with status 400 and an error; neither encrypt nor upsert runs,
\* and the table and the cache are left as they are.
C16_ValidationFirst ==
    [][ CredStep("POST", DEFAULT_USER_ID) =>
          LET body == lastOp'.data
          IN  (body = None \/ body[1] \in MalformedSecrets \cup {<<>>}) =>
                /\ lastOp'.result[1].status = 400
                /\ lastOp'.result[1].error \in
                     {"Token is required",
                      "Invalid token format. Expected GitHub PAT (ghp_... or github_pat_...)"}
                /\ \A i \in DOMAIN lastOp'.calls :
                     lastOp'.calls[i] \notin {"encrypt", "upsert"}
                /\ db' = db
                /\ cache' = cache
      ]_vars

\* C16 witness: a token with the right prefix and a wrong rest was refused
\* while a row was stored and the cache held an entry; both are still there
C16_Witness ==
    /\ lastOp.op = "POST"
    /\ lastOp.result[1].status = 400
    /\ IsSome(lastOp.data)
    /\ Len(lastOp.data[1]) > 4
    /\ SubSeq(lastOp.data[1], 1, 4) = ClassicPrefix
    /\ lastOp.present
    /\ dbGet(db, DEFAULT_USER_ID) = lastOp.prior
    /\ Len(cache) = 1

\* the constant texts the credentials router puts in a response
ResponseTexts ==
    {"Credentials saved successfully", "Credentials configured",
     "No credentials found", "Credentials deleted successfully",
     "Token is required",
     "Invalid token format. Expected GitHub PAT (ghp_... or github_pat_...)"}

\* C17: every response of POST, GET and DELETE /api/credentials is the same
\* in two runs that make the same calls and differ only in which valid
\* secrets are saved and stored; a response has no fields but status,
\* success, exists, message and error, and its texts are constants of the
\* router, so it holds neither the stored blob nor the secret.
C17_ResponsesIndependentOfSecret ==
    lastOp.op \in {"POST", "GET", "DELETE"} =>
      /\ lastOp.result = twin.resp
      /\ LET resp == lastOp.result[1]
         IN  /\ DOMAIN resp \subseteq {"status", "success", "exists", "message", "error"}
             /\ resp.status \in {200, 400}
             /\ "message" \in DOMAIN resp => resp.message \in ResponseTexts
             /\ "error" \in DOMAIN resp => resp.error \in ResponseTexts
             /\ "success" \in DOMAIN resp => resp.success \in BOOLEAN
             /\ "exists" \in DOMAIN resp => resp.exists \in BOOLEAN

\* C17 witness: a save was answered while the two runs saved different
\* secrets over different stored secrets
C17_Witness ==
    /\ lastOp.op = "POST"
    /\ lastOp.result[1].status = 200
    /\ lastOp.result = twin.resp
    /\ lastOp.present
    /\ IsSome(SecretOf(lastOp.prior[1]))
    /\ Len(db) = 1 /\ Len(twin.db) = 1
    /\ SecretOf(db[1]) # SecretOf(twin.db[1])
    /\ Len(SecretOf(db[1])[1]) # Len(SecretOf(twin.db[1])[1])

\* this step saved a secret for userId
SavedFor(userId) ==
    \/ CredStep("saveToken", userId)
    \/ CredStep("POST", userId) /\ lastOp'.result[1].status = 200

\* this step deleted the secret of userId
DeletedFor(userId) ==
    CredStep("deleteCredentials", userId) \/ CredStep("DELETE", userId)

\* C18: hasCredentials, and exists in the response of GET /api/credentials,
\* is true exactly when the identity has a row: it is false on an empty
\* table, true after every save for the identity, false after every delete
\* for it, and no other call changes it.
C18_HasSecretIffRecord ==
    /\ [](\A u \in UserIds :
            /\ hasCredentials(db, u) <=> RowsOf(db, u) # {}
            /\ db = <<>> => ~hasCredentials(db, u))
    /\ [][ \A u \in UserIds :
             /\ CredStep("hasCredentials", u) =>
                  lastOp'.result[1].exists = (RowsOf(db, u) # {})
             /\ CredStep("GET", u) =>
                  lastOp'.result[1].exists = (RowsOf(db, u) # {})
             /\ SavedFor(u) => hasCredentials(db', u)
             /\ DeletedFor(u) => ~hasCredentials(db', u)
             /\ hasCredentials(db', u) # hasCredentials(db, u) =>
                  SavedFor(u) \/ DeletedFor(u)
         ]_vars

\* C18 witness: hasCredentials answered false for an identity whose row was
\* deleted while the other identity still has its row
C18_Witness ==
    /\ lastOp.op = "hasCredentials"
    /\ ~lastOp.result[1].exists
    /\ Len(db) = 1
    /\ RowsOf(db, lastOp.user) = {}

(***************************************************************************)
(* Properties of encrypt and decrypt (SpecCrypt)                           *)
(***************************************************************************)
RECURSIVE WellFormed(_)
\* s is well-formed UTF-16: every surrogate is one half of a pair
WellFormed(s) ==
    IF s = <<>> THEN TRUE
    ELSE IF IsHighSurrogate(s[1])
    THEN Len(s) >= 2 /\ IsLowSurrogate(s[2]) /\ WellFormed(Tail(Tail(s)))
    ELSE ~IsLowSurrogate(s[1]) /\ WellFormed(Tail(s))

\* C19: for every string s and every master key k, decrypt(encrypt(s, k), k)
\* returns s.
C19_RoundTrip ==
    lastOp.op = "decrypt" =>
        /\ lastOp.result[1].threw = ""
        /\ lastOp.result[1].text = lastOp.data

\* the round trip of the strings that are well-formed UTF-16
RoundTripOfWellFormed ==
    lastOp.op = "decrypt" /\ WellFormed(lastOp.data[1]) =>
        /\ lastOp.result[1].threw = ""
        /\ lastOp.result[1].text = lastOp.data

\* C19 witness: under the key that is not the default, decrypt has returned
\* a string with a character outside the BMP as it was given to encrypt
C19_Witness ==
    /\ lastOp.op = "decrypt"
    /\ lastOp.user # encryptionKey
    /\ lastOp.data = Some(<<55357, 56832>>)
    /\ lastOp.result[1].text = lastOp.data

\* C20: decrypt rejects every input whose decoded length is less than
\* SALT_LENGTH + IV_LENGTH + TAG_LENGTH before it derives a key or starts a
\* decipher operation, and such an input never yields a plaintext.
C20_ShortInputRejectedFirst ==
    lastOp.op = "decryptShort" =>
        /\ Len(Base64Decode(lastOp.prior[1])) < SALT_LENGTH + IV_LENGTH + TAG_LENGTH
        /\ lastOp.result[1].threw # ""
        /\ lastOp.result[1].text = None
        /\ \A i \in DOMAIN lastOp.calls :
               lastOp.calls[i] \notin {"deriveKey", "createDecipheriv",
                                       "setAuthTag", "update", "final"}

\* a short input never yields a plaintext
ShortInputYieldsNoText ==
    lastOp.op = "decryptShort" => lastOp.result[1].text = None

\* C20 witness: an input of SALT_LENGTH + 6 decoded bytes was rejected by
\* setAuthTag, after the key had been derived and the decipher created
C20_Witness ==
    /\ lastOp.op = "decryptShort"
    /\ Len(Base64Decode(lastOp.prior[1])) = SALT_LENGTH + 6
    /\ lastOp.result[1].threw = "Invalid authentication tag length"
    /\ \E i \in DOMAIN lastOp.calls : lastOp.calls[i] = "deriveKey"

(***************************************************************************)
(* Properties of the error classes (SpecFetch)                             *)
(***************************************************************************)
\* the provider rejected the credential: HTTP 401 'Bad credentials'
AuthRejection(e) == e.status = 401 /\ Includes(e.message, "Bad credentials")

\* the provider signalled a rate limit, by one of the signals the handler's
\* catch block names: the message, the status 403, or the error type
RateLimitSignal(e) ==
    \/ Includes(e.message, "rate limit")
    \/ Includes(e.message, "quota exhausted")
    \/ e.status = 403
    \/ \E i \in DOMAIN e.errors : e.errors[i].type = "RATE_LIMITED"

\* C21: every failed aggregation is answered with exactly one error class and
\* never as a success: a rejection of the credential as BAD_CREDENTIALS, a
\* rate-limit signal as RATE_LIMIT_EXCEEDED, and an error that is neither as
\* FETCH_ERROR.
C21_OneErrorClass ==
    \A r \in Requests :
      req[r].pc = "done" /\ fetch[r].pc = "threw" =>
        LET e == fetch[r].thrown[1]
            resp == req[r].resp
        IN  /\ resp.status \in {401, 429, 500}
            /\ "success" \notin DOMAIN resp
            /\ "repositories" \notin DOMAIN resp
            /\ AuthRejection(e) => resp.code = "BAD_CREDENTIALS"
            /\ RateLimitSignal(e) => resp.code = "RATE_LIMIT_EXCEEDED"
            /\ ~AuthRejection(e) /\ ~RateLimitSignal(e) => resp.code = "FETCH_ERROR"

\* the class is decided by the text of the rethrown Error alone
ClassifiedByMessage ==
    \A r \in Requests :
      req[r].pc = "done" /\ fetch[r].pc = "threw" =>
        LET msg == fetch[r].err.message
            resp == req[r].resp
        IN  /\ "success" \notin DOMAIN resp
            /\ resp.code = IF Includes(msg, "Bad credentials") THEN "BAD_CREDENTIALS"
                           ELSE IF Includes(msg, "rate limit") \/ Includes(msg, "quota exhausted")
                           THEN "RATE_LIMIT_EXCEEDED"
                           ELSE "FETCH_ERROR"
            /\ AuthRejection(fetch[r].thrown[1]) => resp.code = "BAD_CREDENTIALS"
            /\ resp.code = "BAD_CREDENTIALS" => ~RateLimitSignal(fetch[r].thrown[1])
            /\ resp.code = "RATE_LIMIT_EXCEEDED" => RateLimitSignal(fetch[r].thrown[1])

\* C21 witness: a page request was refused with HTTP 403 by the abuse
\* detection, after a page had come in, and the answer is FETCH_ERROR
C21_Witness ==
    \E r \in Requests :
      /\ req[r].pc = "done"
      /\ fetch[r].pc = "threw"
      /\ Len(fetch[r].pages) >= 1
      /\ fetch[r].thrown[1].status = 403
      /\ ~Includes(fetch[r].thrown[1].message, "Forbidden")
      /\ ~Includes(fetch[r].thrown[1].message, "rate limit")
      /\ req[r].resp.status = 500
      /\ req[r].resp.code = "FETCH_ERROR"

(***************************************************************************)
(* Properties of a page request that gets no answer (SpecFetchLive)        *)
(***************************************************************************)
\* C22: every page request is bounded by a timeout: an invocation that waits
\* for a page does not wait forever, also when the provider never answers;
\* it ends, and when no answer came it has failed.
C22_PageRequestTimesOut ==
    \A r \in Requests :
      (fetch[r].pc = "awaiting") ~> (fetch[r].pc \in {"returned", "threw"})

\* the classes a response can name: none of them is a timeout
NoTimeoutClass ==
    \A r \in Requests :
      req[r].pc = "done" /\ req[r].resp.status \notin {0, 200} =>
        \/ req[r].resp = NoCredentialsResponse
        \/ req[r].resp.code \in {"BAD_CREDENTIALS", "RATE_LIMIT_EXCEEDED", "FETCH_ERROR"}

\* C22 witness: the invocation waits for its second page
C22_Witness ==
    \E r \in Requests :
      /\ req[r].pc = "fetching"
      /\ fetch[r].pc = "awaiting"
      /\ Len(fetch[r].sent) = 2
      /\ Len(fetch[r].pages) = 1

(***************************************************************************)
(* Properties of the cache key (SpecKey)                                   *)
(***************************************************************************)
\* the runs of n consecutive code units of s
Substrings(s, n) == {SubSeq(s, i, i + n - 1) : i \in 1..(Len(s) - n + 1)}

\* s and t have a run of n code units in common
SharesSubstring(s, t, n) == Substrings(s, n) \cap Substrings(t, n) # {}

\* c is one of '0'..'9', 'a'..'f'
IsHexDigitChar(c) == c \in (48..57) \cup (97..102)

C24_OneRequestInFlight ==
    \A r \in Requests :
      LET f == fetch[r]
      IN  /\ Len(f.pages) <= Len(f.sent)
          /\ Len(f.sent) <= Len(f.pages) + 1
          /\ f.pc = "awaiting" => Len(f.sent) = Len(f.pages) + 1
          /\ f.pc = "returned" => Len(f.sent) = Len(f.pages)
          /\ f.pc = "idle" => f.sent = <<>>
          /\ Len(f.sent) >= 1 => f.sent[1] = NoCursor
          /\ \A i \in DOMAIN f.pages : f.pages[i].cursor = f.sent[i]
          /\ \A i \in DOMAIN f.sent :
               i >= 2 => /\ f.sent[i] = f.pages[i - 1].endCursor
                         /\ f.pages[i - 1].hasNextPage

\* C24 witness: the third request is in flight, two responses are in, and it
\* carries the endCursor of the second
C24_Witness ==
    \E r \in Requests :
      /\ fetch[r].pc = "awaiting"
      /\ Len(fetch[r].sent) = 3
      /\ Len(fetch[r].pages) = 2
      /\ fetch[r].sent[3] = fetch[r].pages[2].endCursor
      /\ fetch[r].sent[3] # NoCursor

(***************************************************************************)
(* Properties of responses without an endCursor (SpecFetchNull)            *)
(***************************************************************************)
\* C25: a page response that carries no endCursor ends the pagination: no
\* page request is issued after it, so an invocation never sends a second
\* request with the cursor null.
C25_NoCursorEndsPagination ==
    \A r \in Requests :
      LET f == fetch[r]
      IN  /\ \A i \in DOMAIN f.pages :
               f.pages[i].endCursor = NoCursor => Len(f.sent) <= i
          /\ Cardinality({i \in DOMAIN f.sent : f.sent[i] = NoCursor}) <= 1

\* a response that signals no further page ends the pagination, with or
\* without an endCursor; one that signals a further page never does
EndDecidedByHasNextPage ==
    \A r \in Requests :
      LET f == fetch[r]
      IN  \A i \in DOMAIN f.pages :
            /\ ~f.pages[i].hasNextPage => Len(f.sent) <= i /\ f.pc = "returned"
            /\ f.pages[i].hasNextPage /\ i < MAX_PAGES => Len(f.sent) > i

\* C25 witness: the first response signalled more pages and carried no
\* endCursor; the first page was requested and served again, and its record
\* is twice in what the invocation returned
C25_Witness ==
    \E r \in Requests :
      LET f == fetch[r]
      IN  /\ f.pc = "returned"
          /\ Len(f.pages) = 2
          /\ f.pages[1].hasNextPage
          /\ f.pages[1].endCursor = NoCursor
          /\ f.sent = <<NoCursor, NoCursor>>
          /\ Len(f.ret) = 2
          /\ f.ret[1] = f.ret[2]
          /\ req[r].resp.status = 200

(***************************************************************************)
(* Properties of the sweep (SpecCache)                                     *)
(***************************************************************************)
\* what the claim says cleanup() makes of the Map c at time t: the entries
\* not older than the default TTL and, when these are more than the capacity,
\* all of them but the ones of the smallest timestamps
SweepsRight(c, t) ==
    LET swept == Cleanup(c, t)
        fresh == SelectSeq(c, LAMBDA e : t - e.timestamp <= defaultTTL)
    IN  /\ \A i \in DOMAIN swept : t - swept[i].timestamp <= defaultTTL
        /\ Len(fresh) <= MAX_CACHE_SIZE => swept = fresh
        /\ Len(fresh) > MAX_CACHE_SIZE =>
             /\ Len(swept) = MAX_CACHE_SIZE
             /\ Entries(swept) \subseteq Entries(fresh)
             /\ swept = SelectSeq(fresh, LAMBDA e : e \in Entries(swept))
             /\ \A e \in Entries(fresh) \ Entries(swept) :
                  \A k \in Entries(swept) : e.timestamp <= k.timestamp

\* C26: a sweep run removes every entry older than the default TTL and keeps
\* every entry that is not, in its place, as long as no more than
\* MAX_CACHE_SIZE remain; if more remain it removes entries in increasing
\* order of their timestamps until MAX_CACHE_SIZE are left.  The Map never
\* holds more than MAX_CACHE_SIZE entries when the sweep runs.
C26_SweepRemovesExpired ==
    /\ SweepsRight(cache, now)
    /\ Len(cache) <= MAX_CACHE_SIZE
    /\ Len(Cleanup(cache, now)) <= Len(cache)

\* cleanup() on Maps that are over the capacity by up to OverCapacity
\* entries, which set never produces: nothing expired, some expired and the
\* rest within the capacity, all expired
CleanupOverCapacity ==
    lastOp.op = "none" =>
        \A n \in 1..OverCapacity :
          \A t \in {MAX_CACHE_SIZE + n, defaultTTL + 1, defaultTTL + 50,
                    2 * defaultTTL} :
            SweepsRight(Prefilled(MAX_CACHE_SIZE + n), t)

\* C26 witness: the sweep has run on a full Map when all entries but the last
\* were older than the default TTL and the last was exactly that old: only
\* that entry is left
C26_Witness ==
    /\ lastOp.op = "none"
    /\ Len(cache) = 1
    /\ cache[1].key = MAX_CACHE_SIZE
    /\ now - cache[1].timestamp = defaultTTL
    /\ cache = Cleanup(Prefilled(MAX_CACHE_SIZE), now)

(***************************************************************************)
(* Properties of the cache under concurrent requests (Spec)                *)
(***************************************************************************)
\* the entry is what one single set stored: its data carries the time of
\* its own set, and its records are those of the last fresh response for
\* the key
WholeEntry(e) ==
    /\ e.data.timestamp = e.timestamp
    /\ lastFresh[e.key] = Some(e.data.repositories)

\* C27: under every interleaving of two requests, the sweep and the clock, a
\* lookup returns nothing or the value one single set stored for the key,
\* with that set's time.  Every entry of the Map is whole and no key is there
\* twice; a step changes the Map only by removing whole entries and by
\* putting in the one entry of the request that ends; a cached response
\* hands out the data of the entry as it is.
C27_GetSeesOneWholeSet ==
    /\ [](/\ \A i \in DOMAIN cache : WholeEntry(cache[i])
          /\ \A i, j \in DOMAIN cache : cache[i].key = cache[j].key => i = j)
    /\ [][ /\ \A e \in Entries(cache') \ Entries(cache) :
                \E r \in Requests :
                  /\ CompletesFetch(r)
                  /\ fetch'[r].pc = "returned"
                  /\ e = [key |-> req[r].cacheKey,
                          data |-> ResponseData(fetch'[r].ret, now),
                          timestamp |-> now]
           /\ \A r \in Requests :
                EntryStep(r) /\ req'[r].pc = "done" /\ req'[r].resp.status = 200 =>
                  \E e \in Entries(cache) :
                    /\ e.key = req'[r].cacheKey
                    /\ req'[r].resp = CachedResponse(e.data)
                    /\ req'[r].resp.cachedAt = e.timestamp
                    /\ cache' = cache
           /\ \A r \in Requests :
                EntryStep(r) /\ req'[r].pc = "fetching" =>
                  \/ cache' = cache
                  \/ cache' = MapDelete(cache, req'[r].cacheKey)
         ]_vars

\* C27 witness: two requests for one key were under way together; the one
\* that ended later, at a later time and with other records, replaced the
\* entry of the first, and the Map holds its data and its time
C27_Witness ==
    \E r, q \in Requests :
      /\ r # q
      /\ req[r].pc = "done" /\ req[q].pc = "done"
      /\ ~req[r].bypass /\ ~req[q].bypass
      /\ req[r].cacheKey = req[q].cacheKey
      /\ "create" \in req[q].muts
      /\ "replace" \in req[r].muts
      /\ req[r].resp.repositories # req[q].resp.repositories
      /\ \E i \in DOMAIN cache :
           /\ cache[i].key = req[r].cacheKey
           /\ cache[i].data.repositories = req[r].resp.repositories
           /\ cache[i].timestamp = now
           /\ cache[i].timestamp > 0
           /\ cache[i].timestamp <= CACHE_TTL

(***************************************************************************)
(* Properties of concurrent invocations (Spec)                             *)
(***************************************************************************)
\* C28: two invocations of fetchRepositories that run together share no
\* cursor, accumulator or page count.  At every moment the accumulator of an
\* invocation is the concatenation of the pages served to it, its page count
\* their number and its cursor the endCursor of its last page; what it
\* returns is the mapping of exactly these records; and a step of one
\* invocation leaves the locals of the other as they are.
C28_InvocationsIndependent ==
    /\ [](\A r \in Requests :
            LET f == fetch[r]
            IN  /\ f.allRepos = ProviderRecords(f.pages)
                /\ f.pageCount = Len(f.pages)
                /\ f.cursor = IF f.pages = <<>> THEN NoCursor
                              ELSE f.pages[Len(f.pages)].endCursor
                /\ f.pc = "returned" =>
                     f.ret = MapRepositories(ProviderRecords(f.pages))
                /\ f.pc = "threw" => f.ret = <<>>)
    /\ [][ \A r, q \in Requests :
             r # q /\ fetch'[r] # fetch[r] => fetch'[q] = fetch[q] ]_vars

\* C28 witness: one invocation has returned the three records of its two
\* pages while the other, started before that, has one page in and waits for
\* its second
C28_Witness ==
    \E r, q \in Requests :
      /\ r # q
      /\ fetch[r].pc = "returned"
      /\ Len(fetch[r].pages) = 2
      /\ Len(fetch[r].ret) = 3
      /\ fetch[q].pc = "awaiting"
      /\ Len(fetch[q].pages) = 1
      /\ Len(fetch[q].allRepos) = 1
      /\ fetch[q].sent = <<NoCursor, 1>>
      /\ ~req[q].bypass
      /\ req[q].cacheKey = req[r].cacheKey

LiveUnder(c, key, t) ==
    HasKey(c, key) /\ ~Expired(c[IndexOf(c, key)], MaxAge(CACHE_TTL), t)

=============================================================================
